---- MODULE Spec2Model ----
(***************************************************************************)
(* A model of llm-werewolf: the game snapshot (domain/game.py), the        *)
(* victory and eligibility services (domain/services.py), the shared rules *)
(* (engine/game_logic.py), the batch runner (engine/game_engine.py) and    *)
(* the two step-wise runners (session.py driven by main.py, and            *)
(* engine/interactive_engine.py).                                          *)
(*                                                                         *)
(* Log entries are records [k, a, b, n]: k is the structural prefix of the *)
(* text line, a and b the names it carries, n its number.  The free text   *)
(* of a statement is opaque to the rules and is not modelled.              *)
(***************************************************************************)
EXTENDS Integers, Sequences, FiniteSets, TLC

VARIABLES
    runner,             \* which front-end drives the game
    game,               \* the GameState snapshot
    step,               \* GameStep (step-wise runners) / position in run() (batch)
    human_player_name,  \* the human's name (step-wise runners)
    speaking_order,     \* session.speaking_order / engine._speaking_order
    discussion_round,   \* session.discussion_round / engine._discussion_round
    winner,             \* session.winner / the value check_victory returned
    lastOp              \* the last request or phase: its inputs and its outcome

vars == <<runner, game, step, human_player_name, speaking_order,
          discussion_round, winner, lastOp>>

(***************************************************************************)
(* Value objects                                                           *)
(***************************************************************************)
VILLAGE == "village"
WEREWOLF_TEAM == "werewolf_team"
NoTeam == "none"

VILLAGER == "villager"
SEER == "seer"
WEREWOLF == "werewolf"
KNIGHT == "knight"
MEDIUM == "medium"
MADMAN == "madman"

DIVINE == "divine"
ATTACK == "attack"
GUARD == "guard"
NoAction == "no_action"

DAY == "day"
NIGHT == "night"
ALIVE == "alive"
DEAD == "dead"

\* Python's None where a name is expected, the absent player, and a name
\* that no participant bears (what a misbehaving action source may return).
None == "None"
NoPlayer == [name |-> None, role |-> "none", status |-> "none"]
UnknownName == "stranger"

\* Role.team, as value_objects.py computes it.
team(role) ==
    IF role = WEREWOLF THEN WEREWOLF_TEAM ELSE VILLAGE

\* _ROLE_NIGHT_ACTION, the pairs value_objects.py lists.
RoleNightAction(role) ==
    CASE role = SEER -> DIVINE
      [] role = WEREWOLF -> ATTACK
      [] OTHER -> NoAction

\* The knight's pair: Role.KNIGHT and NightActionType.GUARD are used by
\* game_logic.py and interactive_engine.py and declared by the tests only.
KnightNightAction(role) ==
    IF role = KNIGHT THEN GUARD ELSE NoAction

\* Role.night_action_type
night_action_type(role) ==
    IF RoleNightAction(role) # NoAction THEN RoleNightAction(role)
    ELSE KnightNightAction(role)

\* Role.has_night_action
has_night_action(role) == night_action_type(role) # NoAction

(***************************************************************************)
(* Player and GameState                                                    *)
(***************************************************************************)
Player(name, role) == [name |-> name, role |-> role, status |-> ALIVE]

is_alive(p) == p.status = ALIVE

\* The ValueError of Player.killed on a participant who is not alive.
AlreadyDead(name) == [raises |-> "ValueError", message |-> <<name, "is already dead">>]

\* killed that answers for the dead as for the living.
killed_of_anyone(p) == [name |-> p.name, role |-> p.role, status |-> DEAD]

killed(p) ==
    IF p.status # ALIVE
    THEN AlreadyDead(p.name)
    ELSE [name |-> p.name, role |-> p.role, status |-> DEAD]

GameState(players) ==
    [players |-> players, phase |-> DAY, day |-> 1, log |-> <<>>,
     divined_history |-> <<>>, guard_history |-> <<>>, medium_results |-> <<>>]

alive_players(g) == SelectSeq(g.players, is_alive)

IsWerewolf(p) == p.role = WEREWOLF

alive_werewolves(g) == SelectSeq(alive_players(g), IsWerewolf)

\* The first element of a sequence of players, or NoPlayer.
FirstOrNone(s) == IF Len(s) = 0 THEN NoPlayer ELSE s[1]

find_player(g, name, alive_only) ==
    LET pool == IF alive_only THEN alive_players(g) ELSE g.players
    IN FirstOrNone(SelectSeq(pool, LAMBDA p : p.name = name))

\* replace_player: identity of a player in the roster is its name.
\* replace_player putting the new value at the end of the roster.
replace_player_moved_last(g, old, new) ==
    [g EXCEPT !.players =
        Append(SelectSeq(g.players, LAMBDA p : p.name # old.name), new)]

replace_player(g, old, new) ==
    [g EXCEPT !.players =
        [i \in 1..Len(g.players) |->
            IF g.players[i].name = old.name THEN new ELSE g.players[i]]]

add_log(g, entry) == [g EXCEPT !.log = Append(g.log, entry)]

add_divine_history(g, seer_name, target_name) ==
    [g EXCEPT !.divined_history = Append(g.divined_history, <<seer_name, target_name>>)]

get_divined_history(g, seer_name) ==
    LET mine == SelectSeq(g.divined_history, LAMBDA e : e[1] = seer_name)
    IN [i \in 1..Len(mine) |-> mine[i][2]]

add_guard_history(g, knight_name, target_name) ==
    [g EXCEPT !.guard_history = Append(g.guard_history, <<knight_name, target_name>>)]

get_last_guard_target(g, knight_name) ==
    LET mine == SelectSeq(g.guard_history, LAMBDA e : e[1] = knight_name)
    IN IF Len(mine) = 0 THEN None ELSE mine[Len(mine)][2]

add_medium_result(g, day, name, is_werewolf) ==
    [g EXCEPT !.medium_results = Append(g.medium_results, <<day, name, is_werewolf>>)]

\* The elements of a sequence, as a set.
Range(s) == {s[i] : i \in 1..Len(s)}

NamesOf(players) == {players[i].name : i \in 1..Len(players)}

(***************************************************************************)
(* Victory                                                                 *)
(***************************************************************************)
check_victory_lt(g) ==
    LET alive_werewolf_count == Len(alive_werewolves(g))
        alive_non_werewolf_count == Len(alive_players(g)) - alive_werewolf_count
    IN IF alive_werewolf_count = 0 THEN VILLAGE
       ELSE IF alive_non_werewolf_count < alive_werewolf_count THEN WEREWOLF_TEAM
       ELSE NoTeam

check_victory(g) ==
    LET alive_werewolf_count == Len(alive_werewolves(g))
        alive_non_werewolf_count == Len(alive_players(g)) - alive_werewolf_count
    IN IF alive_werewolf_count = 0 THEN VILLAGE
       ELSE IF alive_non_werewolf_count <= alive_werewolf_count THEN WEREWOLF_TEAM
       ELSE NoTeam

(***************************************************************************)
(* Log entries                                                             *)
(***************************************************************************)
LogEntry(k, a, b, n) == [k |-> k, a |-> a, b |-> b, n |-> n]

LogGameStart == LogEntry("game_start", "", "", 0)
LogRole(name, role) == LogEntry("role", name, role, 0)
LogDayHeader(day) == LogEntry("day_header", "", "", day)
LogNightHeader(day) == LogEntry("night_header", "", "", day)
LogRound(round_num) == LogEntry("round", "", "", round_num)
LogSpeech(name) == LogEntry("speech", name, "", 0)
LogVote(voter, target) == LogEntry("vote", voter, target, 0)
LogExecution(name, count) == LogEntry("executed", name, "", count)
LogAttack(name) == LogEntry("attacked", name, "", 0)
LogNoAttack == LogEntry("no_attack", "", "", 0)
LogDivine(seer, target) == LogEntry("divine", seer, target, 0)
LogDivineResult(seer, target, is_werewolf) ==
    LogEntry("divine_result", seer, target, IF is_werewolf THEN 1 ELSE 0)
LogGuard(knight, target) == LogEntry("guard", knight, target, 0)
LogGuardSuccess(target) == LogEntry("guard_success", target, "", 0)
LogMediumResult(medium, name, is_werewolf) ==
    LogEntry("medium_result", medium, name, IF is_werewolf THEN 1 ELSE 0)
LogGameEnd(winning_team) == LogEntry("game_end", winning_team, "", 0)

add_logs(g, entries) == [g EXCEPT !.log = g.log \o entries]

(***************************************************************************)
(* Eligibility (domain/services.py): "ok", or the first rule violated      *)
(***************************************************************************)
\* can_divine looking at the target's membership before the seer's status.
can_divine_target_first(g, seer, target) ==
    IF seer.role # SEER THEN "not_a_seer"
    ELSE IF target \notin Range(g.players) THEN "not_in_game"
    ELSE IF ~is_alive(seer) THEN "actor_dead"
    ELSE IF ~is_alive(target) THEN "target_dead"
    ELSE IF seer.name = target.name THEN "self_target"
    ELSE IF target.name \in Range(get_divined_history(g, seer.name))
         THEN "already_divined"
    ELSE "ok"

can_divine(g, seer, target) ==
    IF seer.role # SEER THEN "not_a_seer"
    ELSE IF ~is_alive(seer) THEN "actor_dead"
    ELSE IF target \notin Range(g.players) THEN "not_in_game"
    ELSE IF ~is_alive(target) THEN "target_dead"
    ELSE IF seer.name = target.name THEN "self_target"
    ELSE IF target.name \in Range(get_divined_history(g, seer.name))
         THEN "already_divined"
    ELSE "ok"

\* can_attack without the rule that refuses a werewolf as the target.
can_attack_any_role(g, werewolf, target) ==
    IF werewolf.role # WEREWOLF THEN "not_a_werewolf"
    ELSE IF ~is_alive(werewolf) THEN "actor_dead"
    ELSE IF target \notin Range(g.players) THEN "not_in_game"
    ELSE IF ~is_alive(target) THEN "target_dead"
    ELSE IF werewolf.name = target.name THEN "self_target"
    ELSE "ok"

can_attack(g, werewolf, target) ==
    IF werewolf.role # WEREWOLF THEN "not_a_werewolf"
    ELSE IF ~is_alive(werewolf) THEN "actor_dead"
    ELSE IF target \notin Range(g.players) THEN "not_in_game"
    ELSE IF ~is_alive(target) THEN "target_dead"
    ELSE IF werewolf.name = target.name THEN "self_target"
    ELSE IF target.role = WEREWOLF THEN "target_is_werewolf"
    ELSE "ok"

\* can_guard with a sixth rule refusing the knight's latest protectee.
can_guard_no_repeat(g, knight, target) ==
    IF knight.role # KNIGHT THEN "not_a_knight"
    ELSE IF ~is_alive(knight) THEN "actor_dead"
    ELSE IF target \notin Range(g.players) THEN "not_in_game"
    ELSE IF ~is_alive(target) THEN "target_dead"
    ELSE IF knight.name = target.name THEN "self_target"
    ELSE IF get_last_guard_target(g, knight.name) = target.name THEN "already_guarded"
    ELSE "ok"

can_guard(g, knight, target) ==
    IF knight.role # KNIGHT THEN "not_a_knight"
    ELSE IF ~is_alive(knight) THEN "actor_dead"
    ELSE IF target \notin Range(g.players) THEN "not_in_game"
    ELSE IF ~is_alive(target) THEN "target_dead"
    ELSE IF knight.name = target.name THEN "self_target"
    ELSE "ok"

(***************************************************************************)
(* Shared rules (engine/game_logic.py)                                     *)
(***************************************************************************)
\* A tentative divination (seer, target, is_werewolf), or none.
NoDivine == <<>>

AlivePlayersNamed(g, names) == [i \in 1..Len(names) |-> find_player(g, names[i], TRUE)]

get_alive_speaking_order(g, order) ==
    IF Len(order) = 0 THEN alive_players(g)
    ELSE AlivePlayersNamed(g, SelectSeq(order,
                                        LAMBDA name : name \in NamesOf(alive_players(g))))

SeerPlayers(g) == SelectSeq(alive_players(g), LAMBDA p : p.role = SEER)

\* notify_divine_result from "history = ..." on.
\* notify_last_divined reading the madman as a wolf.
notify_last_divined_madman_wolf(g, seer_name, history) ==
    IF Len(history) = 0 THEN g
    ELSE LET last_target == find_player(g, history[Len(history)], FALSE)
         IN IF last_target # NoPlayer
            THEN add_log(g, LogDivineResult(seer_name, history[Len(history)],
                                            last_target.role \in {WEREWOLF, MADMAN}))
            ELSE g

notify_last_divined(g, seer_name, history) ==
    IF Len(history) = 0 THEN g
    ELSE LET last_target == find_player(g, history[Len(history)], FALSE)
         IN IF last_target # NoPlayer
            THEN add_log(g, LogDivineResult(seer_name, history[Len(history)],
                                            last_target.role = WEREWOLF))
            ELSE g

notify_divine_result(g) ==
    IF g.day < 2 THEN g
    ELSE IF Len(SeerPlayers(g)) = 0 THEN g
    ELSE notify_last_divined(g, SeerPlayers(g)[1].name,
                             get_divined_history(g, SeerPlayers(g)[1].name))

\* get_divine_candidates keeping the participants already divined.
get_divine_candidates_with_divined(g, seer) ==
    SelectSeq(alive_players(g), LAMBDA p : p.name # seer.name)

get_divine_candidates(g, seer) ==
    LET already_divined == Range(get_divined_history(g, seer.name))
    IN SelectSeq(alive_players(g),
                 LAMBDA p : p.name # seer.name /\ p.name \notin already_divined)

\* execute_divine without the can_divine check.
execute_divine_unchecked(g, seer, target_name) ==
    LET target == find_player(g, target_name, TRUE)
    IN IF target = NoPlayer THEN [game |-> g, result |-> NoDivine]
       ELSE [game |-> add_log(g, LogDivine(seer.name, target.name)),
             result |-> <<seer.name, target_name, target.role = WEREWOLF>>]

execute_divine(g, seer, target_name) ==
    LET target == find_player(g, target_name, TRUE)
    IN IF target = NoPlayer THEN [game |-> g, result |-> NoDivine]
       ELSE IF can_divine(g, seer, target) # "ok" THEN [game |-> g, result |-> NoDivine]
       ELSE [game |-> add_log(g, LogDivine(seer.name, target.name)),
             result |-> <<seer.name, target_name, target.role = WEREWOLF>>]

\* get_guard_candidates keeping the knight's latest protectee.
get_guard_candidates_with_last(g, knight) ==
    SelectSeq(alive_players(g), LAMBDA p : p.name # knight.name)

get_guard_candidates(g, knight) ==
    LET last_guard_target == get_last_guard_target(g, knight.name)
    IN SelectSeq(alive_players(g),
                 LAMBDA p : p.name # knight.name /\ p.name # last_guard_target)

execute_guard_unchecked(g, knight, target_name) ==
    LET target == find_player(g, target_name, TRUE)
    IN IF target = NoPlayer THEN [game |-> g, result |-> None]
       ELSE [game |-> add_guard_history(add_log(g, LogGuard(knight.name, target.name)),
                                        knight.name, target.name),
             result |-> target_name]

execute_guard(g, knight, target_name) ==
    LET target == find_player(g, target_name, TRUE)
    IN IF target = NoPlayer THEN [game |-> g, result |-> None]
       ELSE IF can_guard(g, knight, target) # "ok" THEN [game |-> g, result |-> None]
       ELSE [game |-> add_guard_history(add_log(g, LogGuard(knight.name, target.name)),
                                        knight.name, target.name),
             result |-> target_name]

get_attack_candidates(g) ==
    SelectSeq(alive_players(g), LAMBDA p : p.role # WEREWOLF)

\* target.killed() put in the roster, then the line of the death.
kill_and_log(g, target, entry) ==
    add_log(replace_player(g, target, killed(target)), entry)

\* The execution of the player the vote handling found (NoPlayer: nobody).
execute_player(g, target, count) ==
    IF target # NoPlayer
    THEN kill_and_log(g, target, LogExecution(target.name, count))
    ELSE g

\* A tentative divination that is kept goes to the ledger.
commit_divination(g, divine_result) ==
    IF divine_result # NoDivine
    THEN add_divine_history(g, divine_result[1], divine_result[2])
    ELSE g

execute_attack(g, werewolf, target_name) ==
    LET target == find_player(g, target_name, TRUE)
    IN IF target = NoPlayer THEN [game |-> g, result |-> None]
       ELSE IF can_attack(g, werewolf, target) # "ok" THEN [game |-> g, result |-> None]
       ELSE [game |-> g, result |-> target_name]

\* Counter(votes.values())[name]
VoteCount(votes, name) == Cardinality({v \in DOMAIN votes : votes[v] = name})

\* Every voted target taken for a top candidate.
TopCandidates_any_voted(votes) == {votes[v] : v \in DOMAIN votes}

\* The targets with the maximal count.
TopCandidates(votes) ==
    LET targets == {votes[v] : v \in DOMAIN votes}
    IN {t \in targets : \A u \in targets : VoteCount(votes, u) <= VoteCount(votes, t)}

\* tally_votes: the names it can return; rng.choice is any of the tied names.
tally_votes(votes) ==
    IF DOMAIN votes = {} THEN {None} ELSE TopCandidates(votes)

\* How often tally_votes draws from rng: rng.choice runs only on a tie.
tally_votes_draws(votes) ==
    IF DOMAIN votes = {} THEN 0
    ELSE IF Cardinality(TopCandidates(votes)) > 1 THEN 1 ELSE 0

\* The position of a name in an order (0 when absent).
IndexOf(order, name) ==
    IF \E i \in 1..Len(order) : order[i] = name
    THEN CHOOSE i \in 1..Len(order) :
            order[i] = name /\ \A j \in 1..(i - 1) : order[j] # name
    ELSE 0

\* rotate_speaking_order dropping the name after the removed one as well.
rotate_speaking_order_drops_next(order, removed_name) ==
    LET idx == IndexOf(order, removed_name)
    IN IF idx = 0 THEN order
       ELSE IF idx = Len(order) THEN SubSeq(order, 2, idx - 1)
       ELSE SubSeq(order, idx + 2, Len(order)) \o SubSeq(order, 1, idx - 1)

rotate_speaking_order(order, removed_name) ==
    LET idx == IndexOf(order, removed_name)
    IN IF idx = 0 THEN order
       ELSE SubSeq(order, idx + 1, Len(order)) \o SubSeq(order, 1, idx - 1)

\* find_night_actor preferring the human among the living holders.
find_night_actor_human_first(g, action_type) ==
    LET holders == SelectSeq(alive_players(g),
                             LAMBDA p : night_action_type(p.role) = action_type)
        human_holders == SelectSeq(holders, LAMBDA p : p.name = human_player_name)
    IN FirstOrNone(human_holders \o holders)

find_night_actor(g, action_type) ==
    FirstOrNone(SelectSeq(alive_players(g),
                          LAMBDA p : night_action_type(p.role) = action_type))

get_night_action_candidates(g, player) ==
    LET action_type == night_action_type(player.role)
    IN CASE action_type = DIVINE -> get_divine_candidates(g, player)
         [] action_type = ATTACK -> get_attack_candidates(g)
         [] action_type = GUARD -> get_guard_candidates(g, player)
         [] OTHER -> <<>>

\* The medium-result lines for the entries of day - 1, in ledger order.
MediumLines(g, medium_name) ==
    LET due == SelectSeq(g.medium_results, LAMBDA e : e[1] = g.day - 1)
    IN [i \in 1..Len(due) |-> LogMediumResult(medium_name, due[i][2], due[i][3])]

notify_medium_result(g) ==
    IF g.day < 2 THEN g
    ELSE LET medium_players == SelectSeq(alive_players(g), LAMBDA p : p.role = MEDIUM)
         IN IF Len(medium_players) = 0 THEN g
            ELSE add_logs(g, MediumLines(g, medium_players[1].name))

get_discussion_rounds(day) == IF day = 1 THEN 1 ELSE 2

(***************************************************************************)
(* What the action sources may answer                                      *)
(***************************************************************************)
\* A target name an action source may return: any participant's name (alive
\* or dead, the asker's own included) or a name nobody bears.
Targets(g) == NamesOf(g.players) \cup {UnknownName}

NameSeq(players) == [i \in 1..Len(players) |-> players[i].name]

\* The vote maps the voters (a sequence of names) may produce: all on one
\* target; each on the next voter (every count equal); and the first half on
\* one of two targets, the rest on the other.
VoteMaps(g, voters) ==
    LET n == Len(voters)
        vs == Range(voters)
        first == IF n = 0 THEN UnknownName ELSE voters[1]
        split(a, b) == [v \in vs |-> IF IndexOf(voters, v) <= n \div 2 THEN a ELSE b]
    IN IF n = 0 THEN {[v \in vs |-> None]}
       ELSE    {[v \in vs |-> t] : t \in Targets(g)}
          \cup {[v \in vs |-> voters[(IndexOf(voters, v) % n) + 1]]}
          \cup {split(first, UnknownName), split(UnknownName, first)}

\* The [投票] lines of a vote map, in the order the votes were collected.
VoteLines(voters, votes) == [i \in 1..Len(voters) |-> LogVote(voters[i], votes[voters[i]])]

SpeechLines(players) == [i \in 1..Len(players) |-> LogSpeech(players[i].name)]

\* The record of the last operation: the request, its HTTP status where it
\* has one, the human's target, the tally's result, what each night ability
\* had accepted, and who the attack killed.
Op(name) ==
    [op |-> name, status |-> 200, actor |-> None, target |-> None, tally |-> None,
     divine |-> NoDivine, guard |-> None, attack |-> None, attacked |-> None]

\* What execute_guard accepts of the answer of the first living knight.
GuardAccepted(g, answer) ==
    LET knight == find_night_actor(g, GUARD)
    IN IF knight = NoPlayer THEN None
       ELSE IF Len(get_night_action_candidates(g, knight)) = 0 THEN None
       ELSE execute_guard(g, knight, answer).result

(***************************************************************************)
(* The batch runner (engine/game_engine.py)                                *)
(***************************************************************************)
GE_log_role_assignment(g) ==
    add_logs(g, [i \in 1..Len(g.players) |-> LogRole(g.players[i].name, g.players[i].role)])

GE_log_winner(g, w) == add_log(g, LogGameEnd(w))

GE_find_alive_player(g, name) ==
    FirstOrNone(SelectSeq(alive_players(g), LAMBDA p : p.name = name))

GE_find_player_by_name(g, name) ==
    FirstOrNone(SelectSeq(g.players, LAMBDA p : p.name = name))

\* The notification naming the first ledger entry instead of the last.
GE_notify_first_divined(g, seer_name, history) ==
    IF Len(history) = 0 THEN g
    ELSE LET first_target == GE_find_player_by_name(g, history[1])
         IN IF first_target # NoPlayer
            THEN add_log(g, LogDivineResult(seer_name, history[1],
                                            first_target.role = WEREWOLF))
            ELSE g

GE_notify_last_divined(g, seer_name, history) ==
    IF Len(history) = 0 THEN g
    ELSE LET last_target == GE_find_player_by_name(g, history[Len(history)])
         IN IF last_target # NoPlayer
            THEN add_log(g, LogDivineResult(seer_name, history[Len(history)],
                                            last_target.role = WEREWOLF))
            ELSE g

GE_notify_divine_result(g) ==
    IF g.day < 2 THEN g
    ELSE IF Len(SeerPlayers(g)) = 0 THEN g
    ELSE GE_notify_last_divined(g, SeerPlayers(g)[1].name,
                                get_divined_history(g, SeerPlayers(g)[1].name))

\* One round: the round line, then one statement per living participant in
\* roster order.
GE_round(g, round_num) ==
    add_logs(add_log(g, LogRound(round_num)), SpeechLines(alive_players(g)))

GE_discussion_phase(g) ==
    IF g.day = 1 THEN GE_round(g, 1) ELSE GE_round(GE_round(g, 1), 2)

\* The vote and the tally with nobody executed.
GE_vote_and_execution_phase_spared(g, votes, executed_name) ==
    add_logs(g, VoteLines(NameSeq(alive_players(g)), votes))

GE_vote_and_execution_phase(g, votes, executed_name) ==
    execute_player(add_logs(g, VoteLines(NameSeq(alive_players(g)), votes)),
                   GE_find_alive_player(g, executed_name),
                   VoteCount(votes, executed_name))

GE_day_phase(g, votes, executed_name) ==
    GE_vote_and_execution_phase(
        GE_discussion_phase(GE_notify_divine_result(add_log(g, LogDayHeader(g.day)))),
        votes, executed_name)

\* _resolve_divine from "already_divined = ..." on.
GE_divine_target(g, seer, target_name, target) ==
    IF Len(SelectSeq(alive_players(g),
                     LAMBDA p : /\ p.name # seer.name
                                /\ p.name \notin Range(get_divined_history(g, seer.name))))
          = 0
    THEN [game |-> g, result |-> NoDivine]
    ELSE IF target = NoPlayer THEN [game |-> g, result |-> NoDivine]
    ELSE IF can_divine(g, seer, target) # "ok" THEN [game |-> g, result |-> NoDivine]
    ELSE [game |-> add_log(g, LogDivine(seer.name, target.name)),
          result |-> <<seer.name, target_name, target.role = WEREWOLF>>]

GE_resolve_divine(g, answer) ==
    IF Len(SeerPlayers(g)) = 0 THEN [game |-> g, result |-> NoDivine]
    ELSE GE_divine_target(g, SeerPlayers(g)[1], answer, GE_find_alive_player(g, answer))

\* _resolve_attack from "candidates = ..." on.
GE_attack_target(g, werewolf, target_name, target) ==
    IF Len(SelectSeq(alive_players(g), LAMBDA p : p.role # WEREWOLF)) = 0
    THEN [game |-> g, result |-> None]
    ELSE IF target = NoPlayer THEN [game |-> g, result |-> None]
    ELSE IF can_attack(g, werewolf, target) # "ok" THEN [game |-> g, result |-> None]
    ELSE [game |-> g, result |-> target_name]

GE_resolve_attack(g, answer) ==
    IF Len(alive_werewolves(g)) = 0 THEN [game |-> g, result |-> None]
    ELSE GE_attack_target(g, alive_werewolves(g)[1], answer,
                          GE_find_alive_player(g, answer))

\* The answers the run can obtain: the provider is asked only when a living
\* holder with candidates exists.
GE_divine_answers(g) ==
    IF Len(SeerPlayers(g)) = 0 THEN {None}
    ELSE IF Len(get_divine_candidates(g, SeerPlayers(g)[1])) = 0 THEN {None}
    ELSE Targets(g)

GE_attack_answers(g) ==
    IF Len(alive_werewolves(g)) = 0 \/ Len(get_attack_candidates(g)) = 0
    THEN {None} ELSE Targets(g)

\* _night_phase, the attack on the player it found.
GE_night_kill(dv, at, target) ==
    [game |-> [commit_divination(
                   IF target # NoPlayer
                   THEN kill_and_log(at.game, target, LogAttack(target.name))
                   ELSE at.game,
                   IF target # NoPlayer /\ dv.result # NoDivine
                      /\ target.name = dv.result[1]
                   THEN NoDivine ELSE dv.result)
               EXCEPT !.phase = DAY, !.day = @ + 1],
     divine |-> dv.result, attack |-> at.result,
     attacked |-> IF target # NoPlayer THEN target.name ELSE None]

GE_night_phase(g, divine_answer, attack_answer) ==
    LET dv == GE_resolve_divine(
                  [add_log(g, LogNightHeader(g.day)) EXCEPT !.phase = NIGHT],
                  divine_answer)
        at == GE_resolve_attack(dv.game, attack_answer)
    IN GE_night_kill(dv, at,
           IF at.result # None THEN GE_find_alive_player(at.game, at.result)
           ELSE NoPlayer)

(***************************************************************************)
(* The step-wise runner of session.py                                      *)
(*                                                                         *)
(* A session value s is [game, step, speaking_order, discussion_round,     *)
(* winner, last]; last is the record of the operation in progress.  The    *)
(* providers are those of the participants other than the human.           *)
(***************************************************************************)
ROLE_REVEAL == "role_reveal"
DISCUSSION == "discussion"
VOTE == "vote"
EXECUTION_RESULT == "execution_result"
NIGHT_ACTION == "night_action"
NIGHT_RESULT == "night_result"
GAME_OVER == "game_over"

\* The step of a session in which an operation raised.
RAISED == "raised"

Sess(op) ==
    [game |-> game, step |-> step, speaking_order |-> speaking_order,
     discussion_round |-> discussion_round, winner |-> winner, last |-> op]

SetSess(s) ==
    /\ game' = s.game
    /\ step' = s.step
    /\ speaking_order' = s.speaking_order
    /\ discussion_round' = s.discussion_round
    /\ winner' = s.winner
    /\ lastOp' = s.last

\* name in session.providers
InProviders(g, name) == name \in NamesOf(g.players) /\ name # human_player_name

S_find_player(g, name, alive_only) ==
    LET pool == IF alive_only THEN alive_players(g) ELSE g.players
    IN FirstOrNone(SelectSeq(pool, LAMBDA p : p.name = name))

S_get_alive_speaking_order(s) ==
    IF Len(s.speaking_order) = 0 THEN alive_players(s.game)
    ELSE AlivePlayersNamed(s.game,
             SelectSeq(s.speaking_order,
                       LAMBDA name : name \in NamesOf(alive_players(s.game))))

S_run_ai_discussion(s, players) ==
    [s EXCEPT !.game = add_logs(s.game, SpeechLines(players))]

S_notify_last_divined(g, seer_name, history) ==
    IF Len(history) = 0 THEN g
    ELSE LET last_target == S_find_player(g, history[Len(history)], FALSE)
         IN IF last_target # NoPlayer
            THEN add_log(g, LogDivineResult(seer_name, history[Len(history)],
                                            last_target.role = WEREWOLF))
            ELSE g

S_notify_divine_result(g) ==
    IF g.day < 2 THEN g
    ELSE IF Len(SeerPlayers(g)) = 0 THEN g
    ELSE S_notify_last_divined(g, SeerPlayers(g)[1].name,
                               get_divined_history(g, SeerPlayers(g)[1].name))

\* The position of the human among the ordered players (0: next() raises).
HumanIndex(ordered) == IndexOf(NameSeq(ordered), human_player_name)

\* advance_to_discussion, the statements before the human's turn.
S_open_round(s) ==
    LET human == S_find_player(s.game, human_player_name, TRUE)
        ordered == S_get_alive_speaking_order(s)
        human_idx == HumanIndex(ordered)
    IN IF human = NoPlayer
       THEN [S_run_ai_discussion(s,
                SelectSeq(ordered, LAMBDA p : InProviders(s.game, p.name)))
             EXCEPT !.step = DISCUSSION]
       ELSE IF human_idx = 0 THEN [s EXCEPT !.step = RAISED]
       ELSE [S_run_ai_discussion(s,
                SelectSeq(SubSeq(ordered, 1, human_idx - 1),
                          LAMBDA p : InProviders(s.game, p.name)))
             EXCEPT !.step = DISCUSSION]

advance_to_discussion(s) ==
    LET s1 == IF s.discussion_round = 0
              THEN [s EXCEPT !.game = S_notify_divine_result(
                        [add_log(s.game, LogDayHeader(s.game.day)) EXCEPT !.phase = DAY])]
              ELSE s
    IN S_open_round([s1 EXCEPT !.discussion_round = @ + 1,
                               !.game = add_log(@, LogRound(s1.discussion_round + 1))])

\* handle_user_discuss from "max_rounds = ..." on.
S_close_round(s) ==
    IF s.discussion_round < (IF s.game.day = 1 THEN 1 ELSE 2)
    THEN advance_to_discussion(s)
    ELSE [s EXCEPT !.discussion_round = 0, !.step = VOTE]

\* handle_user_discuss, the statements after the human's.
S_speak_after(s) ==
    LET ordered == S_get_alive_speaking_order(s)
        human_idx == HumanIndex(ordered)
    IN IF human_idx = 0 THEN [s EXCEPT !.step = RAISED]
       ELSE S_close_round(S_run_ai_discussion(s,
                SelectSeq(SubSeq(ordered, human_idx + 1, Len(ordered)),
                          LAMBDA p : InProviders(s.game, p.name))))

handle_user_discuss(s) ==
    LET human == S_find_player(s.game, human_player_name, TRUE)
    IN IF human = NoPlayer THEN S_close_round(s)
       ELSE S_speak_after([s EXCEPT !.game = add_log(s.game, LogSpeech(human.name))])

skip_to_vote_past_vote(s) == [s EXCEPT !.discussion_round = 0, !.step = EXECUTION_RESULT]

skip_to_vote(s) == [s EXCEPT !.discussion_round = 0, !.step = VOTE]

S_set_game_over_no_line(s, w) == [s EXCEPT !.winner = w, !.step = GAME_OVER]

S_set_game_over(s, w) ==
    [s EXCEPT !.game = add_log(s.game, LogGameEnd(w)), !.winner = w, !.step = GAME_OVER]

\* The victory check that ends an operation: GAME_OVER, or the next step.
S_check_victory(s, next_step) ==
    LET w == check_victory(s.game)
    IN IF w # NoTeam THEN S_set_game_over(s, w) ELSE [s EXCEPT !.step = next_step]

S_tally_and_execute_unchecked(s, votes, executed_name) ==
    IF DOMAIN votes = {} THEN [s EXCEPT !.step = EXECUTION_RESULT]
    ELSE [s EXCEPT !.game = execute_player(s.game,
                                S_find_player(s.game, executed_name, TRUE),
                                VoteCount(votes, executed_name)),
                   !.last.tally = executed_name,
                   !.step = EXECUTION_RESULT]

\* executed_name: the name the tally settles on when votes is not empty.
S_tally_and_execute(s, votes, executed_name) ==
    IF DOMAIN votes = {} THEN [s EXCEPT !.step = EXECUTION_RESULT]
    ELSE S_check_victory(
             [s EXCEPT !.game = execute_player(s.game,
                                    S_find_player(s.game, executed_name, TRUE),
                                    VoteCount(votes, executed_name)),
                       !.last.tally = executed_name],
             EXECUTION_RESULT)

\* The living participants other than the human, in roster order.
S_ai_voters(g) == SelectSeq(NameSeq(alive_players(g)), LAMBDA n : n # human_player_name)

handle_user_vote(s, target_name, ai_votes, executed_name) ==
    LET human == S_find_player(s.game, human_player_name, TRUE)
        voters == IF human # NoPlayer THEN <<human.name>> \o S_ai_voters(s.game)
                  ELSE S_ai_voters(s.game)
        votes == [v \in Range(voters) |->
                     IF v = human_player_name THEN target_name ELSE ai_votes[v]]
    IN S_tally_and_execute([s EXCEPT !.game = add_logs(s.game, VoteLines(voters, votes))],
                           votes, executed_name)

S_auto_voters(g) ==
    SelectSeq(NameSeq(alive_players(g)), LAMBDA n : InProviders(g, n))

handle_auto_vote(s, ai_votes, executed_name) ==
    LET voters == S_auto_voters(s.game)
        votes == [v \in Range(voters) |-> ai_votes[v]]
    IN S_tally_and_execute([s EXCEPT !.game = add_logs(s.game, VoteLines(voters, votes))],
                           votes, executed_name)

S_human_has_night_action(s) ==
    LET human == S_find_player(s.game, human_player_name, TRUE)
    IN human # NoPlayer /\ human.role \in {SEER, WEREWOLF}

S_get_night_action_candidates(s) ==
    LET human == S_find_player(s.game, human_player_name, TRUE)
        g == s.game
    IN IF human = NoPlayer THEN <<>>
       ELSE IF human.role = SEER
       THEN LET already_divined == Range(get_divined_history(g, human.name))
            IN SelectSeq(alive_players(g),
                         LAMBDA p : p.name # human.name /\ p.name \notin already_divined)
       ELSE IF human.role = WEREWOLF
       THEN SelectSeq(alive_players(g), LAMBDA p : p.role # WEREWOLF)
       ELSE <<>>

S_divine_as(g, seer, human_target, answer) ==
    LET target_name == IF human_target # None /\ seer.name = human_player_name
                       THEN human_target ELSE answer
        target == S_find_player(g, target_name, TRUE)
    IN IF Len(SelectSeq(alive_players(g),
                  LAMBDA p : /\ p.name # seer.name
                             /\ p.name \notin Range(get_divined_history(g, seer.name))))
             = 0
       THEN NoDivine
       ELSE IF target = NoPlayer THEN NoDivine
       ELSE IF can_divine(g, seer, target) # "ok" THEN NoDivine
       ELSE <<add_log(g, LogDivine(seer.name, target.name)),
              seer.name, target_name, target.role = WEREWOLF>>

S_resolve_divine(g, human_target, answer) ==
    LET seer_players == SelectSeq(alive_players(g), LAMBDA p : p.role = SEER)
    IN IF Len(seer_players) = 0 THEN NoDivine
       ELSE S_divine_as(g, seer_players[1], human_target, answer)

S_attack_as(g, werewolf, human_target, answer) ==
    LET target_name == IF human_target # None /\ werewolf.name = human_player_name
                       THEN human_target ELSE answer
        target == S_find_player(g, target_name, TRUE)
    IN IF Len(SelectSeq(alive_players(g), LAMBDA p : p.role # WEREWOLF)) = 0
       THEN [game |-> g, result |-> None]
       ELSE IF target = NoPlayer THEN [game |-> g, result |-> None]
       ELSE IF can_attack(g, werewolf, target) # "ok" THEN [game |-> g, result |-> None]
       ELSE [game |-> g, result |-> target_name]

S_resolve_attack(g, human_target, answer) ==
    LET werewolves == SelectSeq(alive_players(g), LAMBDA p : p.role = WEREWOLF)
    IN IF Len(werewolves) = 0 THEN [game |-> g, result |-> None]
       ELSE S_attack_as(g, werewolves[1], human_target, answer)

S_divine_answers(g, human_target) ==
    LET seer_players == SelectSeq(alive_players(g), LAMBDA p : p.role = SEER)
        seer == seer_players[1]
    IN IF Len(seer_players) = 0 THEN {None}
       ELSE IF Len(get_divine_candidates(g, seer)) = 0 THEN {None}
       ELSE IF human_target # None /\ seer.name = human_player_name THEN {None}
       ELSE IF InProviders(g, seer.name) THEN Targets(g)
       ELSE NamesOf(get_divine_candidates(g, seer))

S_attack_answers(g, human_target) ==
    LET werewolves == alive_werewolves(g)
        werewolf == werewolves[1]
    IN IF Len(werewolves) = 0 THEN {None}
       ELSE IF Len(get_attack_candidates(g)) = 0 THEN {None}
       ELSE IF human_target # None /\ werewolf.name = human_player_name THEN {None}
       ELSE IF InProviders(g, werewolf.name) THEN Targets(g)
       ELSE NamesOf(get_attack_candidates(g))

\* resolve_night_phase, the attack on the player it found.
\* resolve_night_phase, the divination that is kept goes to the ledger.
S_commit_divination(g, kept_result) ==
    IF kept_result # NoDivine
    THEN add_divine_history(g, kept_result[2], kept_result[3])
    ELSE g

\* resolve_night_phase from the attack on the player it found on.
S_night_kill(s, divine_result, at, attack_target) ==
    LET idx == IndexOf(s.speaking_order, at.result)
        g3 == S_commit_divination(
                  IF attack_target # NoPlayer
                  THEN kill_and_log(at.game, attack_target, LogAttack(attack_target.name))
                  ELSE at.game,
                  IF attack_target # NoPlayer /\ divine_result # NoDivine
                     /\ attack_target.name = divine_result[2]
                  THEN NoDivine ELSE divine_result)
    IN S_check_victory(
           [s EXCEPT !.game = [g3 EXCEPT !.phase = DAY, !.day = @ + 1],
                     !.speaking_order =
                         IF at.result # None /\ idx # 0
                         THEN SubSeq(s.speaking_order, idx + 1, Len(s.speaking_order))
                              \o SubSeq(s.speaking_order, 1, idx)
                         ELSE s.speaking_order,
                     !.last.divine = IF divine_result # NoDivine
                                     THEN <<divine_result[2], divine_result[3],
                                            divine_result[4]>>
                                     ELSE NoDivine,
                     !.last.attack = at.result,
                     !.last.attacked = IF attack_target # NoPlayer
                                       THEN attack_target.name ELSE None],
           NIGHT_RESULT)

resolve_night_phase(s, human_divine_target, human_attack_target, divine_answer, attack_answer) ==
    LET divine_result == S_resolve_divine(s.game, human_divine_target, divine_answer)
        at == S_resolve_attack(IF divine_result # NoDivine THEN divine_result[1]
                               ELSE s.game,
                               human_attack_target, attack_answer)
    IN S_night_kill(s, divine_result, at,
           IF at.result # None THEN S_find_player(at.game, at.result, TRUE)
           ELSE NoPlayer)

\* The night header and the NIGHT phase of start_night_phase.
S_night_begun(s) ==
    [s EXCEPT !.game = [add_log(s.game, LogNightHeader(s.game.day)) EXCEPT !.phase = NIGHT]]

\* Whether start_night_phase suspends at NIGHT_ACTION.
S_suspends(s) ==
    S_human_has_night_action(s) /\ Len(S_get_night_action_candidates(s)) > 0

start_night_phase(s, divine_answer, attack_answer) ==
    LET s1 == S_night_begun(s)
    IN IF S_suspends(s1) THEN [s1 EXCEPT !.step = NIGHT_ACTION]
       ELSE resolve_night_phase(s1, None, None, divine_answer, attack_answer)

S_human_targets(s, target_name) ==
    LET human == S_find_player(s.game, human_player_name, TRUE)
        candidate_names == NamesOf(S_get_night_action_candidates(s))
    IN IF human = NoPlayer THEN [divine |-> None, attack |-> None]
       ELSE IF target_name \notin candidate_names THEN [divine |-> None, attack |-> None]
       ELSE IF human.role = SEER THEN [divine |-> target_name, attack |-> None]
       ELSE IF human.role = WEREWOLF THEN [divine |-> None, attack |-> target_name]
       ELSE [divine |-> None, attack |-> None]

handle_night_action(s, target_name, divine_answer, attack_answer) ==
    LET ht == S_human_targets(s, target_name)
    IN resolve_night_phase(s, ht.divine, ht.attack, divine_answer, attack_answer)

\* advance_from_execution_result is imported by main.py from session.py,
\* which does not define it: EXECUTION_RESULT begins the night.
advance_from_execution_result(s, divine_answer, attack_answer) ==
    start_night_phase(s, divine_answer, attack_answer)

(***************************************************************************)
(* The step-wise engine (engine/interactive_engine.py)                     *)
(*                                                                         *)
(* An engine value e has the fields of a session value; its methods leave  *)
(* e.step and e.winner to the caller.                                      *)
(***************************************************************************)
E_run_ai_discussion(e, players) ==
    [e EXCEPT !.game = add_logs(e.game, SpeechLines(players))]

\* advance_discussion, the statements before the human's turn.
E_open_round(e) ==
    LET human == find_player(e.game, human_player_name, TRUE)
        ordered == get_alive_speaking_order(e.game, e.speaking_order)
        human_idx == HumanIndex(ordered)
    IN IF human = NoPlayer
       THEN E_run_ai_discussion(e,
                SelectSeq(ordered, LAMBDA p : InProviders(e.game, p.name)))
       ELSE IF human_idx = 0 THEN [e EXCEPT !.step = RAISED]
       ELSE E_run_ai_discussion(e,
                SelectSeq(SubSeq(ordered, 1, human_idx - 1),
                          LAMBDA p : InProviders(e.game, p.name)))

advance_discussion(e) ==
    LET e1 == IF e.discussion_round = 0
              THEN [e EXCEPT !.game = notify_medium_result(notify_divine_result(
                        [add_log(e.game, LogDayHeader(e.game.day)) EXCEPT !.phase = DAY]))]
              ELSE e
    IN E_open_round([e1 EXCEPT !.discussion_round = @ + 1,
                               !.game = add_log(@, LogRound(e1.discussion_round + 1))])

\* [engine, vote_ready]
\* handle_user_discuss from "max_rounds = ..." on.
E_close_round(e) ==
    IF e.discussion_round < get_discussion_rounds(e.game.day)
    THEN [engine |-> advance_discussion(e), vote_ready |-> FALSE]
    ELSE [engine |-> [e EXCEPT !.discussion_round = 0], vote_ready |-> TRUE]

\* handle_user_discuss, the statements after the human's.
E_speak_after(e) ==
    LET ordered == get_alive_speaking_order(e.game, e.speaking_order)
        human_idx == HumanIndex(ordered)
    IN IF human_idx = 0
       THEN [engine |-> [e EXCEPT !.step = RAISED], vote_ready |-> FALSE]
       ELSE E_close_round(E_run_ai_discussion(e,
                SelectSeq(SubSeq(ordered, human_idx + 1, Len(ordered)),
                          LAMBDA p : InProviders(e.game, p.name))))

E_handle_user_discuss(e) ==
    LET human == find_player(e.game, human_player_name, TRUE)
    IN IF human = NoPlayer THEN E_close_round(e)
       ELSE E_speak_after([e EXCEPT !.game = add_log(e.game, LogSpeech(human.name))])

\* The voters of _collect_ai_votes, in roster order.
E_ai_voters(g) == SelectSeq(NameSeq(alive_players(g)), LAMBDA n : InProviders(g, n))

E_log_votes(e, voters, votes) ==
    [e EXCEPT !.game = add_logs(e.game, VoteLines(voters, votes))]

\* _execute_votes, the execution of the player it found.
E_execute(g, executed_player, count) ==
    IF executed_player # NoPlayer
    THEN add_medium_result(
             kill_and_log(g, executed_player, LogExecution(executed_player.name, count)),
             g.day, executed_player.name, executed_player.role = WEREWOLF)
    ELSE g

E_execute_votes_any_status(e, votes, executed_name) ==
    IF executed_name = None THEN [engine |-> e, winner |-> NoTeam]
    ELSE LET found == find_player(e.game, executed_name, FALSE)
             g == IF found = NoPlayer THEN e.game
                  ELSE add_medium_result(
                           add_log(replace_player(e.game, found, killed_of_anyone(found)),
                                   LogExecution(found.name, VoteCount(votes, executed_name))),
                           e.game.day, found.name, found.role = WEREWOLF)
         IN [engine |-> [e EXCEPT !.game = g, !.last.tally = executed_name],
             winner |-> check_victory(g)]

\* [engine, winner]; executed_name is what tally_votes returned.
E_execute_votes(e, votes, executed_name) ==
    IF executed_name = None THEN [engine |-> e, winner |-> NoTeam]
    ELSE LET g == E_execute(e.game, find_player(e.game, executed_name, TRUE),
                            VoteCount(votes, executed_name))
         IN [engine |-> [e EXCEPT !.game = g, !.last.tally = executed_name],
             winner |-> check_victory(g)]

\* The voters and votes of handle_user_vote.
E_user_voters(g) ==
    LET human == find_player(g, human_player_name, TRUE)
    IN IF human # NoPlayer THEN <<human.name>> \o E_ai_voters(g) ELSE E_ai_voters(g)

E_user_votes(g, target_name, ai_votes) ==
    [v \in Range(E_user_voters(g)) |->
        IF v = human_player_name THEN target_name ELSE ai_votes[v]]

E_handle_user_vote(e, target_name, ai_votes, executed_name) ==
    LET votes == E_user_votes(e.game, target_name, ai_votes)
    IN E_execute_votes(E_log_votes(e, E_user_voters(e.game), votes), votes, executed_name)

E_handle_auto_vote(e, ai_votes, executed_name) ==
    LET voters == E_ai_voters(e.game)
        votes == [v \in Range(voters) |-> ai_votes[v]]
    IN E_execute_votes(E_log_votes(e, voters, votes), votes, executed_name)

E_human_has_night_action(e) ==
    LET human == find_player(e.game, human_player_name, TRUE)
    IN human # NoPlayer /\ has_night_action(human.role)

E_get_night_action_candidates(e) ==
    LET human == find_player(e.game, human_player_name, TRUE)
    IN IF human = NoPlayer THEN <<>> ELSE get_night_action_candidates(e.game, human)

start_night(e) ==
    LET e1 == [e EXCEPT !.game = [add_log(e.game, LogNightHeader(e.game.day))
                                  EXCEPT !.phase = NIGHT]]
    IN [engine |-> e1,
        suspend |-> E_human_has_night_action(e1)
                    /\ Len(E_get_night_action_candidates(e1)) > 0]

E_resolve(g, action_type, human_target, answer) ==
    LET actor == find_night_actor(g, action_type)
        target_name == IF actor.name = human_player_name THEN human_target ELSE answer
        nothing == [game |-> g, result |-> IF action_type = DIVINE THEN NoDivine ELSE None]
    IN IF actor = NoPlayer THEN nothing
       ELSE IF Len(get_night_action_candidates(g, actor)) = 0 THEN nothing
       ELSE IF actor.name = human_player_name /\ human_target = None THEN nothing
       ELSE CASE action_type = DIVINE -> execute_divine(g, actor, target_name)
              [] action_type = GUARD -> execute_guard(g, actor, target_name)
              [] action_type = ATTACK -> execute_attack(g, actor, target_name)

E_resolve_divine(g, human_target, answer) == E_resolve(g, DIVINE, human_target, answer)

E_resolve_guard(g, human_target, answer) == E_resolve(g, GUARD, human_target, answer)

E_resolve_attack(g, human_target, answer) == E_resolve(g, ATTACK, human_target, answer)

E_answers(g, action_type) ==
    LET actor == find_night_actor(g, action_type)
    IN IF actor = NoPlayer THEN {None}
       ELSE IF Len(get_night_action_candidates(g, actor)) = 0 THEN {None}
       ELSE IF actor.name = human_player_name THEN {None}
       ELSE Targets(g)

E_divine_after_attack_kept(divine_result, attack_target) == divine_result

\* resolve_night: the tentative divination once the attack has killed
\* attack_target (NoPlayer when it killed nobody).
E_divine_after_attack(divine_result, attack_target) ==
    IF attack_target # NoPlayer /\ divine_result # NoDivine
       /\ attack_target.name = divine_result[1]
    THEN NoDivine ELSE divine_result

\* resolve_night, the guard success or the attack on the player it found.
\* resolve_night, the guard success or the attack on the player it found,
\* then the divination that is kept.
resolve_night_kill(e, dv, gd, at, guarded, attack_target) ==
    LET attacked_name == IF attack_target # NoPlayer THEN attack_target.name ELSE None
        g2 == commit_divination(
                  IF guarded
                  THEN add_log(add_log(at.game, LogGuardSuccess(at.result)), LogNoAttack)
                  ELSE IF attack_target # NoPlayer
                  THEN kill_and_log(at.game, attack_target,
                                    LogAttack(attack_target.name))
                  ELSE at.game,
                  E_divine_after_attack(dv.result, attack_target))
        g3 == [g2 EXCEPT !.phase = DAY, !.day = @ + 1]
    IN [engine |-> [e EXCEPT !.game = g3,
                             !.speaking_order =
                                 IF attacked_name # None
                                 THEN rotate_speaking_order(e.speaking_order,
                                                            attacked_name)
                                 ELSE e.speaking_order,
                             !.last.divine = dv.result, !.last.guard = gd.result,
                             !.last.attack = at.result,
                             !.last.attacked = attacked_name],
        winner |-> check_victory(g3)]

\* resolve_night from "if attack_target_name is not None" on.
resolve_night_attacked(e, dv, gd, at) ==
    LET guarded == at.result # None /\ gd.result # None /\ gd.result = at.result
    IN resolve_night_kill(e, dv, gd, at, guarded,
           IF at.result # None /\ ~guarded
           THEN find_player(at.game, at.result, TRUE) ELSE NoPlayer)

resolve_night(e, human, answers) ==
    LET dv == E_resolve_divine(e.game, human.divine, answers.divine)
        gd == E_resolve_guard(dv.game, human.guard, answers.guard)
        at == E_resolve_attack(gd.game, human.attack, answers.attack)
    IN resolve_night_attacked(e, dv, gd, at)

(***************************************************************************)
(* Rosters                                                                 *)
(***************************************************************************)
DEFAULT_ROLE_COMPOSITION ==
    <<WEREWOLF, WEREWOLF, KNIGHT, SEER, MEDIUM, MADMAN, VILLAGER, VILLAGER, VILLAGER>>

PlayerNames == <<"P1", "P2", "P3", "P4", "P5", "P6", "P7", "P8", "P9">>

\* A roster: the i-th name bears the i-th role.
RosterOf(roles) == [i \in 1..Len(roles) |-> Player(PlayerNames[i], roles[i])]

\* The rosters victory evaluation is applied to: the 9-participant
\* composition and two orders of a small one with a madman.
VictoryRosters ==
    { RosterOf(DEFAULT_ROLE_COMPOSITION),
      RosterOf(<<MADMAN, WEREWOLF, SEER, WEREWOLF>>),
      RosterOf(<<VILLAGER, MADMAN, WEREWOLF>>) }

\* Every alive/dead assignment of a roster.
StatusAssignments(players) ==
    { [i \in 1..Len(players) |->
         [players[i] EXCEPT !.status = IF i \in dead THEN DEAD ELSE ALIVE]]
      : dead \in SUBSET (1..Len(players)) }

(***************************************************************************)
(* Games                                                                   *)
(***************************************************************************)
\* The rosters the runners play.
GameRosters ==
    { RosterOf(<<SEER, WEREWOLF, KNIGHT, MEDIUM>>),
      RosterOf(<<KNIGHT, WEREWOLF, SEER, VILLAGER>>),
      RosterOf(<<WEREWOLF, MADMAN, WEREWOLF, SEER, KNIGHT>>) }

\* An operation starts only while the log holds at most MaxLogLen entries.
MaxLogLen == 20

WithinBound == Len(game.log) <= MaxLogLen

GuardAnswers(g) ==
    LET knight == find_night_actor(g, GUARD)
    IN IF knight = NoPlayer THEN {None}
       ELSE IF Len(get_night_action_candidates(g, knight)) = 0 THEN {None}
       ELSE Targets(g)

(***************************************************************************)
(* The batch runner's run(), one action per phase of its loop              *)
(***************************************************************************)
InitBatch ==
    /\ runner = "batch"
    /\ \E r \in GameRosters : game = GameState(r)
    /\ step = "created"
    /\ human_player_name = None
    /\ speaking_order = <<>>
    /\ discussion_round = 0
    /\ winner = NoTeam
    /\ lastOp = Op("none")

\* run(): the start line and the role lines.
GE_Run_Start ==
    /\ runner = "batch"
    /\ step = "created"
    /\ game' = GE_log_role_assignment(add_log(game, LogGameStart))
    /\ step' = "run_day"
    /\ lastOp' = Op("run_start")
    /\ UNCHANGED <<runner, human_player_name, speaking_order, discussion_round, winner>>

\* run(): one day phase, then the victory check.
GE_Run_Day ==
    /\ runner = "batch"
    /\ step = "run_day"
    /\ WithinBound
    /\ \E votes \in VoteMaps(game, NameSeq(alive_players(game))) :
       \E executed_name \in TopCandidates(votes) :
       \E g \in {GE_day_phase(game, votes, executed_name)} :
       \E w \in {check_victory(g)} :
          /\ game' = IF w # NoTeam THEN GE_log_winner(g, w) ELSE g
          /\ step' = IF w # NoTeam THEN "returned" ELSE "run_night"
          /\ winner' = w
          /\ lastOp' = [Op("run_day") EXCEPT !.tally = executed_name]
    /\ UNCHANGED <<runner, human_player_name, speaking_order, discussion_round>>

\* run(): one night phase, then the victory check.  The knight's provider is
\* never asked; its answer is drawn to record what a guard would have accepted.
GE_Run_Night ==
    /\ runner = "batch"
    /\ step = "run_night"
    /\ WithinBound
    /\ \E divine_answer \in GE_divine_answers(game) :
       \E guard_answer \in GuardAnswers(game) :
       \E attack_answer \in GE_attack_answers(game) :
       \E r \in {GE_night_phase(game, divine_answer, attack_answer)} :
       \E w \in {check_victory(r.game)} :
          /\ game' = IF w # NoTeam THEN GE_log_winner(r.game, w) ELSE r.game
          /\ step' = IF w # NoTeam THEN "returned" ELSE "run_day"
          /\ winner' = w
          /\ lastOp' = [Op("run_night") EXCEPT
                           !.divine = r.divine,
                           !.guard = GuardAccepted(game, guard_answer),
                           !.attack = r.attack,
                           !.attacked = r.attacked]
    /\ UNCHANGED <<runner, human_player_name, speaking_order, discussion_round>>

NextBatch == GE_Run_Start \/ GE_Run_Day \/ GE_Run_Night

SpecBatch == InitBatch /\ [][NextBatch]_vars

(***************************************************************************)
(* SpecDays: the batch runner's run() on the 9-participant composition,    *)
(* every vote naming a living participant other than the voter             *)
(***************************************************************************)
\* Whom a unanimous day may execute: the first living werewolf, and the
\* first of the other living participants.
DayTargets(g) ==
    {alive_werewolves(g)[i].name : i \in {j \in {1} : Len(alive_werewolves(g)) > 0}}
    \cup {get_attack_candidates(g)[i].name :
             i \in {j \in {1} : Len(get_attack_candidates(g)) > 0}}

\* Votes of the living for living participants other than themselves: all
\* on one target, who votes for the first of the others; and the first half
\* on the last voter, the others on the first (a tie when they are even).
ValidVoteMaps(g) ==
    LET voters == NameSeq(alive_players(g))
        n == Len(voters)
    IN    {[v \in Range(voters) |->
              IF v # t THEN t ELSE IF voters[1] # t THEN voters[1] ELSE voters[2]]
              : t \in DayTargets(g)}
     \cup {[v \in Range(voters) |->
              IF IndexOf(voters, v) <= n \div 2 THEN voters[n] ELSE voters[1]]}

\* What the werewolf's provider answers: a name that is no participant's
\* (the attack has no effect), or the first candidate.
Days_attack_answers(g) ==
    IF Len(alive_werewolves(g)) = 0 \/ Len(get_attack_candidates(g)) = 0 THEN {None}
    ELSE {UnknownName, get_attack_candidates(g)[1].name}

\* What the seer's provider answers: a name that is no participant's (no
\* divination is committed), or the first candidate.
Days_divine_answers(g) ==
    IF Len(SeerPlayers(g)) = 0 THEN {None}
    ELSE IF Len(get_divine_candidates(g, SeerPlayers(g)[1])) = 0 THEN {None}
    ELSE {UnknownName, get_divine_candidates(g, SeerPlayers(g)[1])[1].name}

\* No run is followed beyond this day.
MaxDay == 9

InitDays ==
    /\ runner = "days"
    /\ game = GameState(RosterOf(DEFAULT_ROLE_COMPOSITION))
    /\ step = "created"
    /\ human_player_name = None
    /\ speaking_order = <<>>
    /\ discussion_round = 0
    /\ winner = NoTeam
    /\ lastOp = Op("none")

\* run(): the start line and the role lines.
Days_Start ==
    /\ runner = "days"
    /\ step = "created"
    /\ game' = GE_log_role_assignment(add_log(game, LogGameStart))
    /\ step' = "run_day"
    /\ lastOp' = Op("run_start")
    /\ UNCHANGED <<runner, human_player_name, speaking_order, discussion_round, winner>>

\* run(): one day phase, then the victory check.
Days_Day ==
    /\ runner = "days"
    /\ step = "run_day"
    /\ game.day <= MaxDay
    /\ Len(alive_players(game)) >= 2
    /\ \E votes \in ValidVoteMaps(game) :
       \E executed_name \in TopCandidates(votes) :
       \E g \in {GE_day_phase(game, votes, executed_name)} :
       \E w \in {check_victory(g)} :
          /\ game' = IF w # NoTeam THEN GE_log_winner(g, w) ELSE g
          /\ step' = IF w # NoTeam THEN "returned" ELSE "run_night"
          /\ winner' = w
          /\ lastOp' = [Op("run_day") EXCEPT !.tally = executed_name]
    /\ UNCHANGED <<runner, human_player_name, speaking_order, discussion_round>>

\* run(): one night phase, then the victory check.
Days_Night ==
    /\ runner = "days"
    /\ step = "run_night"
    /\ \E divine_answer \in Days_divine_answers(game) :
       \E attack_answer \in Days_attack_answers(game) :
       \E r \in {GE_night_phase(game, divine_answer, attack_answer)} :
       \E w \in {check_victory(r.game)} :
          /\ game' = IF w # NoTeam THEN GE_log_winner(r.game, w) ELSE r.game
          /\ step' = IF w # NoTeam THEN "returned" ELSE "run_day"
          /\ winner' = w
          /\ lastOp' = [Op("run_night") EXCEPT
                           !.divine = r.divine, !.attack = r.attack,
                           !.attacked = r.attacked]
    /\ UNCHANGED <<runner, human_player_name, speaking_order, discussion_round>>

NextDays == Days_Start \/ Days_Day \/ Days_Night

SpecDays == InitDays /\ [][NextDays]_vars

\* A phase of run() can begin: the start, a night, or a day with voters.
Days_PhaseReady ==
    /\ runner = "days"
    /\ \/ step \in {"created", "run_night"}
       \/ step = "run_day" /\ game.day <= MaxDay /\ Len(alive_players(game)) >= 2

\* run() goes from one phase to the next without waiting for anything: weak
\* fairness of NextDays, its enabling condition written out.
SpecDaysRun == SpecDays /\ ([]<>(~Days_PhaseReady) \/ []<><<NextDays>>_vars)

(***************************************************************************)
(* The requests of main.py on a session                                    *)
(***************************************************************************)
\* The speaking order a session starts with: one of the permutations
\* rng.sample can give (the names rotated by two).
SpeakingOrder(players) ==
    LET names == NameSeq(players)
    IN SubSeq(names, 3, Len(names)) \o SubSeq(names, 1, 2)

\* InteractiveSessionStore.create: the human is the first name.
InitSession ==
    /\ runner = "session"
    /\ \E r \in GameRosters :
          /\ game = GE_log_role_assignment(add_log(GameState(r), LogGameStart))
          /\ human_player_name = r[1].name
          /\ speaking_order = SpeakingOrder(r)
    /\ step = ROLE_REVEAL
    /\ discussion_round = 0
    /\ winner = NoTeam
    /\ lastOp = Op("none")

human_is_alive ==
    LET human_player == find_player(game, human_player_name, FALSE)
    IN human_player # NoPlayer /\ is_alive(human_player)

\* A request answered 400 (HTTPException): only the record of the answer
\* changes.
Rejected(request) ==
    /\ lastOp' = [Op(request) EXCEPT !.status = 400]
    /\ UNCHANGED <<runner, game, step, human_player_name, speaking_order,
                   discussion_round, winner>>

\* The votes handle_user_vote tallies.
S_user_votes(g, target_name, ai_votes) ==
    LET human == S_find_player(g, human_player_name, TRUE)
    IN [v \in Range(S_ai_voters(g)) \cup (IF human # NoPlayer THEN {human.name} ELSE {})
           |-> IF v = human_player_name THEN target_name ELSE ai_votes[v]]

\* POST /next at ROLE_REVEAL or NIGHT_RESULT
Next_ToDiscussion ==
    /\ runner = "session"
    /\ step \in {ROLE_REVEAL, NIGHT_RESULT}
    /\ WithinBound
    /\ SetSess(advance_to_discussion(Sess(Op("next"))))
    /\ UNCHANGED <<runner, human_player_name>>

\* POST /next at DISCUSSION with the human dead
Next_SkipToVote ==
    /\ runner = "session"
    /\ step = DISCUSSION /\ ~human_is_alive
    /\ SetSess(skip_to_vote(Sess(Op("next"))))
    /\ UNCHANGED <<runner, human_player_name>>

\* POST /next at VOTE with the human dead
Next_AutoVote ==
    /\ runner = "session"
    /\ step = VOTE /\ ~human_is_alive
    /\ \E ai_votes \in VoteMaps(game, S_auto_voters(game)) :
       \E executed_name \in tally_votes(ai_votes) :
          SetSess(handle_auto_vote(Sess(Op("next")), ai_votes, executed_name))
    /\ UNCHANGED <<runner, human_player_name>>

\* POST /next at EXECUTION_RESULT
Next_FromExecutionResult ==
    /\ runner = "session"
    /\ step = EXECUTION_RESULT
    /\ \E divine_answer \in S_divine_answers(game, None) :
       \E attack_answer \in S_attack_answers(game, None) :
          SetSess(advance_from_execution_result(Sess(Op("next")),
                                                divine_answer, attack_answer))
    /\ UNCHANGED <<runner, human_player_name>>

\* POST /next at any other step
Next_Rejected ==
    /\ runner = "session"
    /\ ~ \/ step \in {ROLE_REVEAL, EXECUTION_RESULT, NIGHT_RESULT}
         \/ step \in {DISCUSSION, VOTE} /\ ~human_is_alive
    /\ Rejected("next")

SubmitDiscussion_any_step ==
    /\ runner = "session"
    /\ SetSess(handle_user_discuss(Sess(Op("discuss"))))
    /\ UNCHANGED <<runner, human_player_name>>

\* POST /discuss
SubmitDiscussion ==
    /\ runner = "session"
    /\ step = DISCUSSION
    /\ SetSess(handle_user_discuss(Sess(Op("discuss"))))
    /\ UNCHANGED <<runner, human_player_name>>

SubmitDiscussion_Rejected ==
    /\ runner = "session"
    /\ step # DISCUSSION
    /\ Rejected("discuss")

\* POST /vote
SubmitVote ==
    /\ runner = "session"
    /\ step = VOTE
    /\ \E target \in Targets(game) :
          /\ target # human_player_name
          /\ target \in NamesOf(alive_players(game))
          /\ \E ai_votes \in VoteMaps(game, S_ai_voters(game)) :
             \E executed_name \in tally_votes(S_user_votes(game, target, ai_votes)) :
                SetSess(handle_user_vote([Sess(Op("vote")) EXCEPT !.last.target = target],
                                         target, ai_votes, executed_name))
    /\ UNCHANGED <<runner, human_player_name>>

SubmitVote_Rejected ==
    /\ runner = "session"
    /\ ~ /\ step = VOTE
         /\ \A target \in Targets(game) :
               target # human_player_name /\ target \in NamesOf(alive_players(game))
    /\ Rejected("vote")

\* POST /night-action
SubmitNightAction ==
    /\ runner = "session"
    /\ step = NIGHT_ACTION
    /\ \E target \in Targets(game) :
          /\ target \in NamesOf(S_get_night_action_candidates(Sess(Op("night_action"))))
          /\ \E ht \in {S_human_targets(Sess(Op("night_action")), target)} :
             \E divine_answer \in S_divine_answers(game, ht.divine) :
             \E attack_answer \in S_attack_answers(game, ht.attack) :
                SetSess(handle_night_action(
                    [Sess(Op("night_action")) EXCEPT !.last.target = target],
                    target, divine_answer, attack_answer))
    /\ UNCHANGED <<runner, human_player_name>>

SubmitNightAction_Rejected ==
    /\ runner = "session"
    /\ ~ /\ step = NIGHT_ACTION
         /\ \A target \in Targets(game) :
               target \in NamesOf(S_get_night_action_candidates(Sess(Op("night_action"))))
    /\ Rejected("night_action")

NextSession ==
    \/ Next_ToDiscussion
    \/ Next_SkipToVote
    \/ Next_AutoVote
    \/ Next_FromExecutionResult
    \/ Next_Rejected
    \/ SubmitDiscussion
    \/ SubmitDiscussion_Rejected
    \/ SubmitVote
    \/ SubmitVote_Rejected
    \/ SubmitNightAction
    \/ SubmitNightAction_Rejected

SpecSession == InitSession /\ [][NextSession]_vars

\* handle_night_action called on the session itself, with any target name.
HandleNightAction ==
    /\ runner = "session"
    /\ step = NIGHT_ACTION
    /\ \E target \in Targets(game) :
       \E ht \in {S_human_targets(Sess(Op("handle_night_action")), target)} :
       \E divine_answer \in S_divine_answers(game, ht.divine) :
       \E attack_answer \in S_attack_answers(game, ht.attack) :
          SetSess(handle_night_action(
              [Sess(Op("handle_night_action")) EXCEPT !.last.target = target],
              target, divine_answer, attack_answer))
    /\ UNCHANGED <<runner, human_player_name>>

NextSessionCore == NextSession \/ HandleNightAction

SpecSessionCore == InitSession /\ [][NextSessionCore]_vars

(***************************************************************************)
(* SpecTwin: two sessions created from the same seed and given the same    *)
(* calls (self-composition).  The first run lives in the variables, the    *)
(* second in lastOp.twin.  A draw of the second run repeats the draw of    *)
(* the first when it comes from a generator seeded by the caller's and the *)
(* runs have agreed so far; a draw from random.Random() is free.           *)
(***************************************************************************)
\* The generator the caller hands to create, and one made by random.Random().
CallerRng == "rng"

FreshRng == "random.Random()"

\* create_game(all_names, rng=rng): assign_roles shuffles with it.
ShuffleRng == CallerRng

\* speaking_order = tuple(rng.sample(all_names, len(all_names)))
SampleRng == CallerRng

\* RandomActionProvider(rng=random.Random(rng.randint(0, 2**32)))
ProviderRng == CallerRng

\* The tie-break drawing from a generator of its own.
TallyRng_fresh == FreshRng

\* session.rng.choice(top_candidates)
TallyRng == CallerRng

\* RandomActionProvider(rng=session.rng) for the human's seat
FallbackRng == CallerRng

\* The orders rng.sample may give that the runs start from.
SpeakingOrders(players) == {SpeakingOrder(players), NameSeq(players)}

S_operations ==
    {"advance_to_discussion", "handle_user_discuss", "skip_to_vote", "handle_user_vote",
     "handle_auto_vote", "start_night_phase", "handle_night_action"}

S_human_is_alive(s) == S_find_player(s.game, human_player_name, TRUE) # NoPlayer

\* The step at which the caller makes the call (main.py), and for the vote
\* the target it lets through.
S_called_at(s, operation, target) ==
    IF operation = "advance_to_discussion" THEN s.step \in {ROLE_REVEAL, NIGHT_RESULT}
    ELSE IF operation = "handle_user_discuss" THEN s.step = DISCUSSION
    ELSE IF operation = "skip_to_vote" THEN s.step = DISCUSSION /\ ~S_human_is_alive(s)
    ELSE IF operation = "handle_user_vote"
    THEN /\ s.step = VOTE
         /\ target # human_player_name
         /\ target \in NamesOf(alive_players(s.game))
    ELSE IF operation = "handle_auto_vote" THEN s.step = VOTE /\ ~S_human_is_alive(s)
    ELSE IF operation = "start_night_phase" THEN s.step = EXECUTION_RESULT
    ELSE s.step = NIGHT_ACTION

NoDraws ==
    [ai_votes |-> <<>>, executed_name |-> None, divine_answer |-> None,
     attack_answer |-> None]

S_vote_draws(ai_votes, votes) ==
    {[NoDraws EXCEPT !.ai_votes = ai_votes, !.executed_name = e] : e \in tally_votes(votes)}

S_night_draws(g, ht) ==
    {[NoDraws EXCEPT !.divine_answer = d, !.attack_answer = a] :
        d \in S_divine_answers(g, ht.divine), a \in S_attack_answers(g, ht.attack)}

\* What the generators may give during one call.
S_draws(s, operation, target) ==
    IF operation = "handle_user_vote"
    THEN UNION {S_vote_draws(v, S_user_votes(s.game, target, v))
                   : v \in VoteMaps(s.game, S_ai_voters(s.game))}
    ELSE IF operation = "handle_auto_vote"
    THEN UNION {S_vote_draws(v, v) : v \in VoteMaps(s.game, S_auto_voters(s.game))}
    ELSE IF operation = "start_night_phase"
    THEN S_night_draws(s.game, [divine |-> None, attack |-> None])
    ELSE IF operation = "handle_night_action"
    THEN S_night_draws(s.game, S_human_targets(s, target))
    ELSE {NoDraws}

\* The call itself.
S_call(s, operation, target, d) ==
    IF operation = "advance_to_discussion" THEN advance_to_discussion(s)
    ELSE IF operation = "handle_user_discuss" THEN handle_user_discuss(s)
    ELSE IF operation = "skip_to_vote" THEN skip_to_vote(s)
    ELSE IF operation = "handle_user_vote"
    THEN handle_user_vote([s EXCEPT !.last.target = target], target,
                          d.ai_votes, d.executed_name)
    ELSE IF operation = "handle_auto_vote"
    THEN handle_auto_vote(s, d.ai_votes, d.executed_name)
    ELSE IF operation = "start_night_phase"
    THEN start_night_phase(s, d.divine_answer, d.attack_answer)
    ELSE handle_night_action([s EXCEPT !.last.target = target], target,
                             d.divine_answer, d.attack_answer)

\* The generator behind the answer for a night role: the provider of an AI
\* seat, session.rng for the human's.
S_night_rng(g, role) ==
    LET actors == SelectSeq(alive_players(g), LAMBDA p : p.role = role)
    IN IF Len(actors) > 0 /\ ~InProviders(g, actors[1].name)
       THEN FallbackRng ELSE ProviderRng

\* The second run's draws that the first run's draws leave possible.
S_echoes(s, d, e) ==
    /\ ProviderRng = CallerRng => e.ai_votes = d.ai_votes
    /\ TallyRng = CallerRng => e.executed_name = d.executed_name
    /\ S_night_rng(s.game, SEER) = CallerRng => e.divine_answer = d.divine_answer
    /\ S_night_rng(s.game, WEREWOLF) = CallerRng => e.attack_answer = d.attack_answer

Run(s) == [s EXCEPT !.last = None]

TwinSet(s, t) ==
    /\ game' = s.game
    /\ step' = s.step
    /\ speaking_order' = s.speaking_order
    /\ discussion_round' = s.discussion_round
    /\ winner' = s.winner
    /\ lastOp' = [last |-> s.last, twin |-> t]

\* InteractiveSessionStore.create(human_name, rng) twice, the generators
\* seeded alike.
InitTwin ==
    /\ runner = "twin"
    /\ human_player_name = PlayerNames[1]
    /\ step = ROLE_REVEAL
    /\ discussion_round = 0
    /\ winner = NoTeam
    /\ \E r \in GameRosters : \E o \in SpeakingOrders(r) :
       \E q \in IF ShuffleRng = CallerRng THEN {r} ELSE GameRosters :
       \E u \in IF SampleRng = CallerRng /\ q = r THEN {o} ELSE SpeakingOrders(q) :
          /\ game = GE_log_role_assignment(add_log(GameState(r), LogGameStart))
          /\ speaking_order = o
          /\ lastOp = [last |-> Op("create"),
                       twin |-> [game |-> GE_log_role_assignment(
                                              add_log(GameState(q), LogGameStart)),
                                 step |-> ROLE_REVEAL, speaking_order |-> u,
                                 discussion_round |-> 0, winner |-> NoTeam,
                                 last |-> Op("create")]]

\* The same call on both runs.
TwinCall ==
    /\ runner = "twin"
    /\ WithinBound
    /\ \E operation \in S_operations :
       \E target \in IF operation \in {"handle_user_vote", "handle_night_action"}
                     THEN Targets(game) ELSE {None} :
       \E s \in {Sess(Op(operation))} :
       \E t \in {[lastOp.twin EXCEPT !.last = Op(operation)]} :
          /\ S_called_at(s, operation, target)
          /\ \E d \in S_draws(s, operation, target) :
                IF S_called_at(t, operation, target)
                THEN \E e \in S_draws(t, operation, target) :
                        /\ Run(s) = Run(t) => S_echoes(s, d, e)
                        /\ TwinSet(S_call(s, operation, target, d),
                                   S_call(t, operation, target, e))
                ELSE TwinSet(S_call(s, operation, target, d), t)
    /\ UNCHANGED <<runner, human_player_name>>

NextTwin == TwinCall

SpecTwin == InitTwin /\ [][NextTwin]_vars

(***************************************************************************)
(* The engine driven step by step.  The engine's methods are those of      *)
(* interactive_engine.py; the step cursor that orders the calls and the    *)
(* closing of the game follow the step-wise state machine.                 *)
(***************************************************************************)
\* The human of an engine is the third name, and its speaking order the
\* roster reversed.
InitEngine ==
    /\ runner = "engine"
    /\ \E r \in GameRosters :
          /\ game = GE_log_role_assignment(add_log(GameState(r), LogGameStart))
          /\ human_player_name = r[3].name
          /\ speaking_order = [i \in 1..Len(r) |-> r[Len(r) + 1 - i].name]
    /\ step = ROLE_REVEAL
    /\ discussion_round = 0
    /\ winner = NoTeam
    /\ lastOp = Op("none")

\* The step after a method that returned a winner (or none).
E_settle(result, next_step) ==
    IF result.winner # NoTeam THEN S_set_game_over(result.engine, result.winner)
    ELSE [result.engine EXCEPT !.step = next_step]

E_human_targets(e, target_name) ==
    LET human == find_player(e.game, human_player_name, TRUE)
        action_type == IF human = NoPlayer THEN NoAction
                       ELSE night_action_type(human.role)
    IN [divine |-> IF action_type = DIVINE THEN target_name ELSE None,
        attack |-> IF action_type = ATTACK THEN target_name ELSE None,
        guard |-> IF action_type = GUARD THEN target_name ELSE None]

NoHumanTargets == [divine |-> None, attack |-> None, guard |-> None]

\* The answers the three _resolve_* steps of one resolve_night can obtain:
\* those in which the knight names the wolf's target or the seer's.
E_night_answers(g) ==
    { answers \in [divine : E_answers(g, DIVINE), guard : E_answers(g, GUARD),
                   attack : E_answers(g, ATTACK)] :
        answers.guard \in {None, answers.attack, answers.divine} }

Eng_AdvanceDiscussion ==
    /\ runner = "engine"
    /\ step \in {ROLE_REVEAL, NIGHT_RESULT}
    /\ WithinBound
    /\ SetSess([advance_discussion(Sess(Op("advance_discussion")))
                EXCEPT !.step = IF @ = RAISED THEN RAISED ELSE DISCUSSION])
    /\ UNCHANGED <<runner, human_player_name>>

Eng_UserDiscuss ==
    /\ runner = "engine"
    /\ step = DISCUSSION
    /\ \E r \in {E_handle_user_discuss(Sess(Op("handle_user_discuss")))} :
          SetSess([r.engine EXCEPT !.step = IF @ = RAISED THEN RAISED
                                            ELSE IF r.vote_ready THEN VOTE
                                            ELSE DISCUSSION])
    /\ UNCHANGED <<runner, human_player_name>>

Eng_UserVote ==
    /\ runner = "engine"
    /\ step = VOTE
    /\ \E all_votes \in VoteMaps(game, E_user_voters(game)) :
       \E executed_name \in tally_votes(all_votes) :
       \E target \in {IF human_player_name \in DOMAIN all_votes
                      THEN all_votes[human_player_name] ELSE UnknownName} :
          SetSess(E_settle(
              E_handle_user_vote(
                  [Sess(Op("handle_user_vote")) EXCEPT !.last.target = target],
                  target, all_votes, executed_name),
              EXECUTION_RESULT))
    /\ UNCHANGED <<runner, human_player_name>>

Eng_AutoVote ==
    /\ runner = "engine"
    /\ step = VOTE
    /\ find_player(game, human_player_name, TRUE) = NoPlayer
    /\ \E ai_votes \in VoteMaps(game, E_ai_voters(game)) :
       \E executed_name \in tally_votes(ai_votes) :
          SetSess(E_settle(
              E_handle_auto_vote(Sess(Op("handle_auto_vote")), ai_votes, executed_name),
              EXECUTION_RESULT))
    /\ UNCHANGED <<runner, human_player_name>>

\* start_night, and resolve_night at once when it does not suspend.
Eng_StartNight ==
    /\ runner = "engine"
    /\ step = EXECUTION_RESULT
    /\ \E r \in {start_night(Sess(Op("start_night")))} :
          IF r.suspend THEN SetSess([r.engine EXCEPT !.step = NIGHT_ACTION])
          ELSE \E answers \in E_night_answers(r.engine.game) :
                  SetSess(E_settle(resolve_night(r.engine, NoHumanTargets, answers),
                                   NIGHT_RESULT))
    /\ UNCHANGED <<runner, human_player_name>>

\* resolve_night with the human's target, or with none.
Eng_ResolveNight ==
    /\ runner = "engine"
    /\ step = NIGHT_ACTION
    /\ \E target \in Targets(game) \cup {None} :
       \E answers \in E_night_answers(game) :
       \E e \in {[Sess(Op("resolve_night")) EXCEPT !.last.target = target]} :
          SetSess(E_settle(resolve_night(e, E_human_targets(e, target), answers),
                           NIGHT_RESULT))
    /\ UNCHANGED <<runner, human_player_name>>

NextEngine ==
    \/ Eng_AdvanceDiscussion
    \/ Eng_UserDiscuss
    \/ Eng_UserVote
    \/ Eng_AutoVote
    \/ Eng_StartNight
    \/ Eng_ResolveNight

SpecEngine == InitEngine /\ [][NextEngine]_vars

(***************************************************************************)
(* SpecDayStarts: the runs of SpecDays beside those of the step-wise       *)
(* engine, the two runners whose days begin with a divine-result notice    *)
(* of game_engine.py and of game_logic.py                                  *)
(***************************************************************************)
InitDayStarts == InitDays \/ InitEngine

NextDayStarts == NextDays \/ NextEngine

SpecDayStarts == InitDayStarts /\ [][NextDayStarts]_vars

(***************************************************************************)
(* The three runners together                                              *)
(***************************************************************************)
Init == InitBatch \/ InitSession \/ InitEngine

Next == NextBatch \/ NextSession \/ NextEngine

Spec == Init /\ [][Next]_vars

(***************************************************************************)
(* SpecExec: execute_divine, execute_guard and execute_attack applied to   *)
(* any participant as the actor and any target name                        *)
(***************************************************************************)
\* An execute_* call is applied only while the log holds fewer entries.
MaxExecLog == 1

\* A snapshot whose ledgers hold at most one divination by the seer and at
\* most one guard by the knight (None: no entry).
WithLedgers(g, seer_name, divined, knight_name, guarded) ==
    LET g1 == IF divined = None THEN g ELSE add_divine_history(g, seer_name, divined)
    IN IF guarded = None THEN g1 ELSE add_guard_history(g1, knight_name, guarded)

\* The snapshots the calls start from: a roster with nobody or one
\* participant dead, the ledgers empty or holding one divination by the seer
\* or one guard by the knight.
ExecGames ==
    UNION { { WithLedgers(GameState(ps),
                          find_night_actor(GameState(r), DIVINE).name, divined,
                          find_night_actor(GameState(r), GUARD).name, guarded)
              : ps \in {qs \in StatusAssignments(r) :
                           Cardinality({i \in 1..Len(qs) : qs[i].status = DEAD}) <= 1},
                divined \in {None, "P2", "P3"},
                guarded \in {None, "P2", "P4"} }
            : r \in GameRosters }

InitExec ==
    /\ runner = "exec"
    /\ game \in ExecGames
    /\ step = "created"
    /\ human_player_name = None
    /\ speaking_order = <<>>
    /\ discussion_round = 0
    /\ winner = NoTeam
    /\ lastOp = Op("none")

ExecuteDivine ==
    /\ runner = "exec"
    /\ Len(game.log) < MaxExecLog
    /\ \E i \in 1..Len(game.players) : \E target_name \in Targets(game) :
       \E r \in {execute_divine(game, game.players[i], target_name)} :
          /\ game' = r.game
          /\ lastOp' = [Op("execute_divine") EXCEPT !.actor = game.players[i].name,
                                                    !.target = target_name,
                                                    !.divine = r.result]
    /\ UNCHANGED <<runner, step, human_player_name, speaking_order, discussion_round,
                   winner>>

ExecuteGuard ==
    /\ runner = "exec"
    /\ Len(game.log) < MaxExecLog
    /\ \E i \in 1..Len(game.players) : \E target_name \in Targets(game) :
       \E r \in {execute_guard(game, game.players[i], target_name)} :
          /\ game' = r.game
          /\ lastOp' = [Op("execute_guard") EXCEPT !.actor = game.players[i].name,
                                                   !.target = target_name,
                                                   !.guard = r.result]
    /\ UNCHANGED <<runner, step, human_player_name, speaking_order, discussion_round,
                   winner>>

ExecuteAttack ==
    /\ runner = "exec"
    /\ Len(game.log) < MaxExecLog
    /\ \E i \in 1..Len(game.players) : \E target_name \in Targets(game) :
       \E r \in {execute_attack(game, game.players[i], target_name)} :
          /\ game' = r.game
          /\ lastOp' = [Op("execute_attack") EXCEPT !.actor = game.players[i].name,
                                                    !.target = target_name,
                                                    !.attack = r.result]
    /\ UNCHANGED <<runner, step, human_player_name, speaking_order, discussion_round,
                   winner>>

NextExec == ExecuteDivine \/ ExecuteGuard \/ ExecuteAttack

SpecExec == InitExec /\ [][NextExec]_vars

(***************************************************************************)
(* SpecTally: tally_votes called on any vote map over the names of a roster *)
(***************************************************************************)
\* The vote maps of the voters among the names: every voter names one name.
AllVoteMaps(names) == UNION {[voters -> names] : voters \in SUBSET names}

InitTally ==
    /\ runner = "tally"
    /\ game \in {GameState(r) : r \in GameRosters}
    /\ step = "created"
    /\ human_player_name = None
    /\ speaking_order = <<>>
    /\ discussion_round = 0
    /\ winner = NoTeam
    /\ lastOp = Op("none")

\* One call: the vote map, the name returned (rng.choice: any of the tied
\* names) and the number of draws taken from rng.
TallyVotes ==
    /\ runner = "tally"
    /\ step = "created"
    /\ \E votes \in AllVoteMaps(NamesOf(game.players)) : \E name \in tally_votes(votes) :
          lastOp' = [Op("tally_votes") EXCEPT !.actor = votes, !.tally = name,
                                              !.target = tally_votes_draws(votes)]
    /\ step' = "tallied"
    /\ UNCHANGED <<runner, game, human_player_name, speaking_order,
                   discussion_round, winner>>

NextTally == TallyVotes

SpecTally == InitTally /\ [][NextTally]_vars

(***************************************************************************)
(* SpecView: domain/game_log.py, the log as a participant sees it.         *)
(*                                                                         *)
(* _is_visible searches the text of a line for the viewer's name, so the   *)
(* names of this part are spelled out: a text is a sequence whose elements *)
(* are the characters of the names and role values it embeds, and one      *)
(* element for each bracketed prefix and each piece of fixed wording.      *)
(***************************************************************************)
\* The names of a session: the human's and AI_NAMES.
ViewNames ==
    << <<"A">>, <<"A", "I", "-", "1">>, <<"A", "I", "-", "2">>,
       <<"A", "I", "-", "3">>, <<"A", "I", "-", "4">> >>

\* Role.value
RoleValue(role) ==
    CASE role = VILLAGER -> <<"v", "i", "l", "l", "a", "g", "e", "r">>
      [] role = SEER -> <<"s", "e", "e", "r">>
      [] role = WEREWOLF -> <<"w", "e", "r", "e", "w", "o", "l", "f">>
      [] role = KNIGHT -> <<"k", "n", "i", "g", "h", "t">>
      [] role = MEDIUM -> <<"m", "e", "d", "i", "u", "m">>
      [] OTHER -> <<"m", "a", "d", "m", "a", "n">>

\* "[人狼仲間] 人狼は...です", the line the visibility tests build.
LogWerewolfAllies(first, second) == LogEntry("werewolf_allies", first, second, 0)

\* result_text
ResultText(n) == IF n = 1 THEN "is a werewolf" ELSE "is not a werewolf"

\* The text of a log line, as the f-strings of the runners write it.
TextOf(e) ==
    CASE e.k = "role" -> <<"[role]", " ">> \o e.a \o <<": ">> \o RoleValue(e.b)
      [] e.k = "divine" -> <<"[divine]", " ">> \o e.a \o <<" ga ">> \o e.b \o <<" divined">>
      [] e.k = "divine_result" ->
            <<"[divine_result]", " ">> \o e.a \o <<" divination: ">> \o e.b
                \o <<" ", ResultText(e.n)>>
      [] e.k = "guard" -> <<"[guard]", " ">> \o e.a \o <<" ga ">> \o e.b \o <<" guarded">>
      [] e.k = "medium_result" ->
            <<"[medium_result]", " ">> \o e.a \o <<" medium: ">> \o e.b
                \o <<" ", ResultText(e.n)>>
      [] e.k = "werewolf_allies" ->
            <<"[werewolf_allies]", " the werewolves are ">> \o e.a \o <<", ">> \o e.b
      [] e.k = "guard_success" ->
            <<"[guard_success]", " ">> \o e.a \o <<" was protected from the attack">>
      [] e.k = "speech" -> <<"[speech]", " ">> \o e.a \o <<": ", "statement">>
      [] e.k = "vote" -> <<"[vote]", " ">> \o e.a \o <<" -> ">> \o e.b
      [] e.k = "executed" -> <<"[executed]", " ">> \o e.a \o <<" was executed">>
      [] e.k = "attacked" -> <<"[attacked]", " ">> \o e.a \o <<" was attacked">>
      [] OTHER -> <<"--- ", e.k, " ---">>

TextsOf(entries) == [i \in 1..Len(entries) |-> TextOf(entries[i])]

\* word in text
Contains(text, word) ==
    \E i \in 1..(Len(text) - Len(word) + 1) : SubSeq(text, i, i + Len(word) - 1) = word

\* log_entry.startswith(prefix)
StartsWith(log_entry, prefix) == Len(log_entry) > 0 /\ log_entry[1] = prefix

\* _is_visible
is_visible(log_entry, player) ==
    IF StartsWith(log_entry, "[role]") THEN Contains(log_entry, player.name)
    ELSE IF StartsWith(log_entry, "[divine_result]")
    THEN player.role = SEER /\ Contains(log_entry, player.name)
    ELSE IF StartsWith(log_entry, "[divine]")
    THEN player.role = SEER /\ Contains(log_entry, player.name)
    ELSE IF StartsWith(log_entry, "[guard]")
    THEN player.role = KNIGHT /\ Contains(log_entry, player.name)
    ELSE IF StartsWith(log_entry, "[medium_result]")
    THEN player.role = MEDIUM /\ Contains(log_entry, player.name)
    ELSE IF StartsWith(log_entry, "[werewolf_allies]")
    THEN player.role = WEREWOLF
    ELSE TRUE

\* "\n".join(lines)
RECURSIVE Join(_)
Join(lines) ==
    IF Len(lines) = 0 THEN <<>>
    ELSE IF Len(lines) = 1 THEN lines[1]
    ELSE lines[1] \o <<"\n">> \o Join(Tail(lines))

\* The lines a joined text is made of.
RECURSIVE SplitLines(_)
SplitLines(text) ==
    IF Len(text) = 0 THEN <<>>
    ELSE IF \A i \in 1..Len(text) : text[i] # "\n" THEN <<text>>
    ELSE LET i == CHOOSE i \in 1..Len(text) :
                     text[i] = "\n" /\ \A j \in 1..(i - 1) : text[j] # "\n"
         IN <<SubSeq(text, 1, i - 1)>> \o SplitLines(SubSeq(text, i + 1, Len(text)))

\* The visible lines but the first of them.
visible_entries_but_first(entries, player) ==
    LET visible == SelectSeq(entries, LAMBDA entry : is_visible(entry, player))
    IN IF Len(visible) = 0 THEN visible ELSE Tail(visible)

\* visible = [entry for entry in entries if _is_visible(entry, player)]
visible_entries(entries, player) ==
    SelectSeq(entries, LAMBDA entry : is_visible(entry, player))

filter_log_entries(entries, player) == Join(visible_entries(entries, player))

\* The private prefixes without that of the guard-success line.
PRIVATE_PREFIXES_without_guard_success ==
    {"[role]", "[divine_result]", "[divine]", "[guard]", "[medium_result]",
     "[werewolf_allies]"}

\* _PRIVATE_PREFIXES
PRIVATE_PREFIXES ==
    {"[role]", "[divine_result]", "[divine]", "[guard]", "[medium_result]",
     "[werewolf_allies]", "[guard_success]"}

\* format_public_log, on the texts of game.log
format_public_log(log) ==
    Join(SelectSeq(log, LAMBDA entry :
                            ~ \E prefix \in PRIVATE_PREFIXES : StartsWith(entry, prefix)))

\* _STATEMENT_PREFIX
STATEMENT_PREFIX == "[speech]"

\* The oldest statements instead of the most recent.
recent_statements_oldest(statements, max_recent_statements) ==
    IF Len(statements) > max_recent_statements
    THEN (IF max_recent_statements > 0
          THEN SubSeq(statements, 1, max_recent_statements) ELSE <<>>)
    ELSE statements

\* statements[-max_recent_statements:] if max_recent_statements > 0 else []
recent_statements(statements, max_recent_statements) ==
    IF Len(statements) > max_recent_statements
    THEN (IF max_recent_statements > 0
          THEN SubSeq(statements, Len(statements) - max_recent_statements + 1,
                      Len(statements))
          ELSE <<>>)
    ELSE statements

PlayerNotFound(player_name) ==
    [raises |-> "ValueError", message |-> <<"Player", player_name, "not found in game">>]

\* format_log_for_context, on the texts of game.log; visible, events and
\* statements hold the indices of the lines.
format_log_for_context(players, log, player_name, max_recent_statements) ==
    IF ~ \E p \in Range(players) : p.name = player_name
    THEN PlayerNotFound(player_name)
    ELSE LET player == CHOOSE p \in Range(players) : p.name = player_name
             visible == SelectSeq([i \in 1..Len(log) |-> i],
                                  LAMBDA i : is_visible(log[i], player))
             events == SelectSeq(visible,
                                 LAMBDA i : ~StartsWith(log[i], STATEMENT_PREFIX))
             statements == SelectSeq(visible,
                                     LAMBDA i : StartsWith(log[i], STATEMENT_PREFIX))
             kept == Range(events)
                        \cup Range(recent_statements(statements, max_recent_statements))
             merged == SelectSeq([i \in 1..Len(log) |-> i], LAMBDA i : i \in kept)
         IN IF max_recent_statements < 0
            THEN Join([n \in 1..Len(visible) |-> log[visible[n]]])
            ELSE Join([n \in 1..Len(merged) |-> log[merged[n]]])

\* The rosters of the views: the human A and the four AI seats, with the
\* roles of a village and with those of a pack.
ViewRosters ==
    {[i \in 1..Len(ViewNames) |-> Player(ViewNames[i], roles[i])] :
        roles \in {<<VILLAGER, SEER, KNIGHT, MEDIUM, WEREWOLF>>,
                   <<SEER, WEREWOLF, VILLAGER, KNIGHT, MEDIUM>>,
                   <<MADMAN, WEREWOLF, WEREWOLF, SEER, KNIGHT>>}}

HoldersOf(players, role) == SelectSeq(players, LAMBDA p : p.role = role)

\* The lines a holder of a role writes about every other participant.
LinesOfRole(players, role, Line(_, _)) ==
    IF Len(HoldersOf(players, role)) = 0 THEN <<>>
    ELSE LET holder == HoldersOf(players, role)[1]
             others == SelectSeq(players, LAMBDA p : p.name # holder.name)
         IN [i \in 1..Len(others) |-> Line(holder.name, others[i].name)]

\* A log with every kind of line about the participants of a roster.
ViewLog(players) ==
    <<LogGameStart>>
    \o [i \in 1..Len(players) |-> LogRole(players[i].name, players[i].role)]
    \o <<LogDayHeader(1)>>
    \o [i \in 1..Len(players) |-> LogSpeech(players[i].name)]
    \o LinesOfRole(players, VILLAGER, LogVote)
    \o <<LogExecution(players[Len(players)].name, 1), LogNightHeader(1)>>
    \o LinesOfRole(players, SEER, LogDivine)
    \o LinesOfRole(players, KNIGHT, LogGuard)
    \o <<LogGuardSuccess(players[1].name), LogAttack(players[2].name)>>
    \o LinesOfRole(players, SEER, LAMBDA s, t : LogDivineResult(s, t, FALSE))
    \o LinesOfRole(players, MEDIUM, LAMBDA m, n : LogMediumResult(m, n, TRUE))
    \o (IF Len(HoldersOf(players, WEREWOLF)) > 1
        THEN <<LogWerewolfAllies(HoldersOf(players, WEREWOLF)[1].name,
                                 HoldersOf(players, WEREWOLF)[2].name)>>
        ELSE <<>>)

\* The longest run of lines handed to the filter.
MaxViewLen == 3

\* The runs of consecutive lines of a log, none longer than MaxViewLen.
RunsOf(log) ==
    {SubSeq(log, w[1], w[2]) :
        w \in {v \in (1..Len(log)) \X (1..Len(log)) :
                  v[1] <= v[2] /\ v[2] < v[1] + MaxViewLen}}

InitView ==
    /\ runner = "view"
    /\ \E players \in ViewRosters : \E log \in RunsOf(ViewLog(players)) :
          game = [GameState(players) EXCEPT !.log = log]
    /\ step = "created"
    /\ human_player_name = ViewNames[1]
    /\ speaking_order = <<>>
    /\ discussion_round = 0
    /\ winner = NoTeam
    /\ lastOp = Op("none")

\* _is_visible on one line of the log for one participant.
IsVisible ==
    /\ runner = "view"
    /\ step = "created"
    /\ \E i \in 1..Len(game.log) : \E player \in Range(game.players) :
          lastOp' = [Op("is_visible") EXCEPT !.actor = player, !.target = game.log[i],
                        !.tally = is_visible(TextOf(game.log[i]), player)]
    /\ step' = "viewed"
    /\ UNCHANGED <<runner, game, human_player_name, speaking_order,
                   discussion_round, winner>>

\* filter_log_entries on the log for one participant.
FilterLogEntries ==
    /\ runner = "view"
    /\ step = "created"
    /\ \E player \in Range(game.players) :
          lastOp' = [Op("filter_log_entries") EXCEPT !.actor = player,
                        !.tally = filter_log_entries(TextsOf(game.log), player)]
    /\ step' = "viewed"
    /\ UNCHANGED <<runner, game, human_player_name, speaking_order,
                   discussion_round, winner>>

\* format_public_log on the snapshot.
FormatPublicLog ==
    /\ runner = "view"
    /\ step = "created"
    /\ lastOp' = [Op("format_public_log") EXCEPT
                     !.tally = format_public_log(TextsOf(game.log))]
    /\ step' = "viewed"
    /\ UNCHANGED <<runner, game, human_player_name, speaking_order,
                   discussion_round, winner>>

\* The largest max_recent_statements handed to format_log_for_context.
MaxStatements == 2

\* A name no participant bears.
ViewStranger == <<"Z">>

\* format_log_for_context on the snapshot for one name and one cap.
FormatLogForContext ==
    /\ runner = "view"
    /\ step = "created"
    /\ \E player_name \in NamesOf(game.players) \cup {ViewStranger} :
       \E max_recent_statements \in (-1)..MaxStatements :
       \E text \in {format_log_for_context(game.players, TextsOf(game.log), player_name,
                                           max_recent_statements)} :
          lastOp' = [Op("format_log_for_context") EXCEPT
                        !.status = IF player_name \in NamesOf(game.players)
                                   THEN 200 ELSE 400,
                        !.actor = player_name, !.target = max_recent_statements,
                        !.tally = text]
    /\ step' = "viewed"
    /\ UNCHANGED <<runner, game, human_player_name, speaking_order,
                   discussion_round, winner>>

NextView == IsVisible \/ FilterLogEntries \/ FormatPublicLog \/ FormatLogForContext

SpecView == InitView /\ [][NextView]_vars

(***************************************************************************)
(* SpecAssign: domain/services.py create_game (assign_roles) and           *)
(* create_game_with_role, for any outcome of rng.shuffle                   *)
(***************************************************************************)
REQUIRED_PLAYER_COUNT == 9

\* The lists without the first occurrence of x.
list_remove(seq, x) ==
    LET i == CHOOSE i \in 1..Len(seq) : seq[i] = x /\ \A j \in 1..(i - 1) : seq[j] # x
    IN SubSeq(seq, 1, i - 1) \o SubSeq(seq, i + 1, Len(seq))

\* rng.shuffle(roles): every arrangement of the list.
RECURSIVE Shuffles(_)
Shuffles(roles) ==
    IF Len(roles) = 0 THEN {<<>>}
    ELSE UNION {{<<x>> \o rest : rest \in Shuffles(list_remove(roles, x))}
                   : x \in Range(roles)}

PlayerCountError(n) ==
    [raises |-> "ValueError", message |-> <<"Player count must be", REQUIRED_PLAYER_COUNT,
                                            "got", n>>]

NotUniqueError == [raises |-> "ValueError", message |-> <<"player_names must be unique">>]

NotInNamesError(fixed_player) ==
    [raises |-> "ValueError", message |-> <<fixed_player, "is not in player_names">>]

\* len(player_names) == REQUIRED_PLAYER_COUNT and the names are unique
names_accepted(player_names) ==
    /\ Len(player_names) = REQUIRED_PLAYER_COUNT
    /\ Cardinality(Range(player_names)) = Len(player_names)

\* The error the checks of the names raise.
names_error(player_names) ==
    IF Len(player_names) # REQUIRED_PLAYER_COUNT THEN PlayerCountError(Len(player_names))
    ELSE NotUniqueError

\* [Player(name=name, role=role) for name, role in zip(player_names, roles)]
assign_roles(player_names, roles) ==
    IF ~names_accepted(player_names) THEN names_error(player_names)
    ELSE [i \in 1..Len(player_names) |-> Player(player_names[i], roles[i])]

\* create_game
create_game(player_names, roles) ==
    IF ~names_accepted(player_names) THEN names_error(player_names)
    ELSE GameState(assign_roles(player_names, roles))

\* The role list handed to the shuffle when a villager is taken out of it
\* whatever the fixed role.
remaining_roles_less_a_villager(fixed_role) ==
    list_remove(DEFAULT_ROLE_COMPOSITION, VILLAGER)

\* remaining_roles = list(DEFAULT_ROLE_COMPOSITION); remaining_roles.remove(fixed_role)
remaining_roles(fixed_role) == list_remove(DEFAULT_ROLE_COMPOSITION, fixed_role)

\* create_game_with_role; shuffled is remaining_roles after rng.shuffle.
\* (Every member of Role occurs in DEFAULT_ROLE_COMPOSITION, so the check of
\* fixed_role never raises.)
create_game_with_role(player_names, fixed_player, fixed_role, shuffled) ==
    IF ~names_accepted(player_names) THEN names_error(player_names)
    ELSE IF fixed_player \notin Range(player_names) THEN NotInNamesError(fixed_player)
    ELSE GameState([i \in 1..Len(player_names) |->
                      IF player_names[i] = fixed_player
                      THEN Player(player_names[i], fixed_role)
                      ELSE Player(player_names[i],
                                  shuffled[Cardinality({j \in 1..(i - 1) :
                                              player_names[j] # fixed_player}) + 1])])

\* The name lists handed in: nine names, eight names, ten names, and nine
\* names of which one occurs twice.
NameLists ==
    {PlayerNames,
     SubSeq(PlayerNames, 1, Len(PlayerNames) - 1),
     Append(PlayerNames, "P10"),
     [PlayerNames EXCEPT ![Len(PlayerNames)] = PlayerNames[1]]}

Raised(result) == "raises" \in DOMAIN result

InitAssign ==
    /\ runner = "assign"
    /\ game = GameState(<<>>)
    /\ step = "none"
    /\ human_player_name = None
    /\ speaking_order = <<>>
    /\ discussion_round = 0
    /\ winner = NoTeam
    /\ lastOp = Op("none")

AssignSet(operation, player_names, fixed_player, fixed_role, result) ==
    /\ lastOp' = [Op(operation) EXCEPT
                     !.status = IF Raised(result) THEN 400 ELSE 200,
                     !.actor = player_names, !.target = fixed_player,
                     !.guard = fixed_role, !.tally = result]
    /\ game' = IF Raised(result) THEN game ELSE result
    /\ step' = IF Raised(result) THEN "failed" ELSE "created"
    /\ UNCHANGED <<runner, human_player_name, speaking_order, discussion_round, winner>>

\* create_game(player_names, rng)
CreateGame ==
    /\ runner = "assign"
    /\ step = "none"
    /\ \E roles \in Shuffles(DEFAULT_ROLE_COMPOSITION) : \E player_names \in NameLists :
          AssignSet("create_game", player_names, None, None,
                    create_game(player_names, roles))

\* create_game_with_role(player_names, fixed_player, fixed_role, rng)
CreateGameWithRole ==
    /\ runner = "assign"
    /\ step = "none"
    /\ \E fixed_role \in Range(DEFAULT_ROLE_COMPOSITION) :
       \E shuffled \in Shuffles(remaining_roles(fixed_role)) :
       \E player_names \in NameLists : \E fixed_player \in {"P5", UnknownName} :
          AssignSet("create_game_with_role", player_names, fixed_player, fixed_role,
                    create_game_with_role(player_names, fixed_player, fixed_role,
                                          shuffled))

NextAssign == CreateGame \/ CreateGameWithRole

SpecAssign == InitAssign /\ [][NextAssign]_vars

(***************************************************************************)
(* SpecRole: Role.team and Role.night_action_type read off the role of any *)
(* participant of a roster                                                 *)
(***************************************************************************)
InitRole ==
    /\ runner = "role"
    /\ \E r \in VictoryRosters : \E ps \in StatusAssignments(r) :
          game = GameState(ps)
    /\ step = "created"
    /\ human_player_name = None
    /\ speaking_order = <<>>
    /\ discussion_round = 0
    /\ winner = NoTeam
    /\ lastOp = Op("none")

\* player.role.team
RoleTeam ==
    /\ runner = "role"
    /\ step = "created"
    /\ \E p \in Range(game.players) :
          lastOp' = [Op("team") EXCEPT !.actor = p, !.tally = team(p.role)]
    /\ step' = "read"
    /\ UNCHANGED <<runner, game, human_player_name, speaking_order,
                   discussion_round, winner>>

\* player.role.night_action_type
RoleNightActionType ==
    /\ runner = "role"
    /\ step = "created"
    /\ \E p \in Range(game.players) :
          lastOp' = [Op("night_action_type") EXCEPT
                        !.actor = p, !.tally = night_action_type(p.role)]
    /\ step' = "read"
    /\ UNCHANGED <<runner, game, human_player_name, speaking_order,
                   discussion_round, winner>>

NextRole == RoleTeam \/ RoleNightActionType

SpecRole == InitRole /\ [][NextRole]_vars

(***************************************************************************)
(* SpecKill: Player.killed called on any Player value, beside the batch     *)
(* runner whose executions and attacks are its callers                      *)
(***************************************************************************)
InitKill ==
    /\ runner = "player"
    /\ game \in ExecGames
    /\ step = "created"
    /\ human_player_name = None
    /\ speaking_order = <<>>
    /\ discussion_round = 0
    /\ winner = NoTeam
    /\ lastOp = Op("none")

\* One call of killed on a Player value: the value it was called on is kept
\* beside what the call gave, a new value or the error.
Killed ==
    /\ runner = "player"
    /\ step = "created"
    /\ \E p \in Range(game.players)
               \cup {Player(UnknownName, role) : role \in {VILLAGER, WEREWOLF}} :
          lastOp' = [Op("killed") EXCEPT !.actor = p, !.tally = killed(p)]
    /\ step' = "killed"
    /\ UNCHANGED <<runner, game, human_player_name, speaking_order,
                   discussion_round, winner>>

InitKillOrBatch == InitKill \/ InitBatch

NextKill == Killed \/ NextBatch

SpecKill == InitKillOrBatch /\ [][NextKill]_vars

(***************************************************************************)
(* SpecRules: can_divine, can_attack, can_guard and get_guard_candidates   *)
(* applied to any two Player values, of the roster or not                  *)
(***************************************************************************)
\* The Player values a caller can hold: those of the roster, those of the
\* roster with the other status (a value of an older snapshot), and
\* strangers.
PlayerValues(g) ==
    Range(g.players)
    \cup {[g.players[i] EXCEPT !.status = IF @ = ALIVE THEN DEAD ELSE ALIVE]
             : i \in 1..Len(g.players)}
    \cup {[Player(UnknownName, role) EXCEPT !.status = status]
             : role \in {VILLAGER, WEREWOLF}, status \in {ALIVE, DEAD}}

InitRules ==
    /\ runner = "rules"
    /\ game \in ExecGames
    /\ step = "created"
    /\ human_player_name = None
    /\ speaking_order = <<>>
    /\ discussion_round = 0
    /\ winner = NoTeam
    /\ lastOp = Op("none")

\* One call on the snapshot, and its record: the two Player values and the
\* outcome.
Checked(name, actor, target, outcome) ==
    /\ step = "created"
    /\ step' = "checked"
    /\ lastOp' = [Op(name) EXCEPT !.actor = actor, !.target = target, !.tally = outcome]
    /\ UNCHANGED <<runner, game, human_player_name, speaking_order,
                   discussion_round, winner>>

CanDivine ==
    /\ runner = "rules"
    /\ \E seer \in PlayerValues(game) : \E target \in PlayerValues(game) :
          Checked("can_divine", seer, target, can_divine(game, seer, target))

CanAttack ==
    /\ runner = "rules"
    /\ \E werewolf \in PlayerValues(game) : \E target \in PlayerValues(game) :
          Checked("can_attack", werewolf, target, can_attack(game, werewolf, target))

CanGuard ==
    /\ runner = "rules"
    /\ \E knight \in PlayerValues(game) : \E target \in PlayerValues(game) :
          Checked("can_guard", knight, target, can_guard(game, knight, target))

GetGuardCandidates ==
    /\ runner = "rules"
    /\ \E knight \in Range(game.players) :
          Checked("get_guard_candidates", knight, None,
                  NameSeq(get_guard_candidates(game, knight)))

NextRules == CanDivine \/ CanAttack \/ CanGuard \/ GetGuardCandidates

SpecRules == InitRules /\ [][NextRules]_vars

(***************************************************************************)
(* SpecCandidates: the candidate lists of game_logic.py, and the execute_* *)
(* call on a target taken from the list                                    *)
(***************************************************************************)
InitCandidates ==
    /\ runner = "candidates"
    /\ game \in ExecGames
    /\ step = "created"
    /\ human_player_name = None
    /\ speaking_order = <<>>
    /\ discussion_round = 0
    /\ winner = NoTeam
    /\ lastOp = Op("none")

\* One candidate list for one participant as the actor.
Listed(name, actor, candidates) ==
    /\ runner = "candidates"
    /\ step = "created"
    /\ step' = "listed"
    /\ lastOp' = [Op(name) EXCEPT !.actor = actor, !.tally = candidates]
    /\ UNCHANGED <<runner, game, human_player_name, speaking_order,
                   discussion_round, winner>>

ListDivineCandidates ==
    \E seer \in Range(game.players) :
        Listed("get_divine_candidates", seer, get_divine_candidates(game, seer))

ListGuardCandidates ==
    \E knight \in Range(game.players) :
        Listed("get_guard_candidates", knight, get_guard_candidates(game, knight))

ListAttackCandidates ==
    \E werewolf \in Range(game.players) :
        Listed("get_attack_candidates", werewolf, get_attack_candidates(game))

\* execute_divine, execute_guard or execute_attack for the actor of the list
\* on the name of one of its candidates.
ExecuteOnCandidate ==
    /\ runner = "candidates"
    /\ step = "listed"
    /\ \E i \in 1..Len(lastOp.tally) :
       \E r \in {IF lastOp.op = "get_divine_candidates"
                  THEN execute_divine(game, lastOp.actor, lastOp.tally[i].name)
                  ELSE IF lastOp.op = "get_guard_candidates"
                  THEN execute_guard(game, lastOp.actor, lastOp.tally[i].name)
                  ELSE execute_attack(game, lastOp.actor, lastOp.tally[i].name)} :
          /\ game' = r.game
          /\ lastOp' = [lastOp EXCEPT
                           !.target = lastOp.tally[i].name,
                           !.divine = IF lastOp.op = "get_divine_candidates"
                                      THEN r.result ELSE NoDivine,
                           !.guard = IF lastOp.op = "get_guard_candidates"
                                     THEN r.result ELSE None,
                           !.attack = IF lastOp.op = "get_attack_candidates"
                                      THEN r.result ELSE None]
    /\ step' = "executed"
    /\ UNCHANGED <<runner, human_player_name, speaking_order, discussion_round, winner>>

NextCandidates ==
    \/ ListDivineCandidates
    \/ ListGuardCandidates
    \/ ListAttackCandidates
    \/ ExecuteOnCandidate

SpecCandidates == InitCandidates /\ [][NextCandidates]_vars

(***************************************************************************)
(* SpecVictory: check_victory applied to every snapshot of VictoryRosters  *)
(***************************************************************************)
InitVictory ==
    /\ runner = "victory"
    /\ \E r \in VictoryRosters : \E ps \in StatusAssignments(r) :
          game = GameState(ps)
    /\ step = "created"
    /\ human_player_name = None
    /\ speaking_order = <<>>
    /\ discussion_round = 0
    /\ winner = NoTeam
    /\ lastOp = Op("none")

EvaluateVictory ==
    /\ runner = "victory"
    /\ step = "created"
    /\ winner' = check_victory(game)
    /\ step' = "evaluated"
    /\ lastOp' = Op("check_victory")
    /\ UNCHANGED <<runner, game, human_player_name, speaking_order, discussion_round>>

NextVictory == EvaluateVictory

SpecVictory == InitVictory /\ [][NextVictory]_vars

\* Counts taken directly on the roster, independently of the snapshot's
\* derived views.
LivingCount(g) ==
    Cardinality({i \in 1..Len(g.players) : g.players[i].status = ALIVE})

LivingWolfRoleCount(g) ==
    Cardinality({i \in 1..Len(g.players) :
        g.players[i].status = ALIVE /\ g.players[i].role = WEREWOLF})

\* C1: victory evaluation returns VILLAGE iff no wolf-role participant is
\* alive (a living madman does not prevent it), otherwise WEREWOLF iff
\* (living - living wolf-role) <= living wolf-role, otherwise no winner.
C1_VictoryRule ==
    step = "evaluated" =>
        /\ (winner = VILLAGE) <=> (LivingWolfRoleCount(game) = 0)
        /\ (winner = WEREWOLF_TEAM) <=>
              /\ LivingWolfRoleCount(game) # 0
              /\ LivingCount(game) - LivingWolfRoleCount(game)
                    <= LivingWolfRoleCount(game)
        /\ winner \in {VILLAGE, WEREWOLF_TEAM, NoTeam}

\* A living madman next to no living wolf: the village has won; and a
\* snapshot where wolves equal the others (madman among the others).
C1_Witness ==
    /\ step = "evaluated"
    /\ winner = VILLAGE
    /\ \E i \in 1..Len(game.players) :
          game.players[i].role = MADMAN /\ game.players[i].status = ALIVE

(***************************************************************************)
(* What the properties observe                                             *)
(***************************************************************************)
LivingNames(g) == {g.players[i].name : i \in {j \in 1..Len(g.players) : g.players[j].status = ALIVE}}

DeadNames(g) == {g.players[i].name : i \in {j \in 1..Len(g.players) : g.players[j].status = DEAD}}

RoleOfName(g, name) ==
    IF \E i \in 1..Len(g.players) : g.players[i].name = name
    THEN g.players[CHOOSE i \in 1..Len(g.players) : g.players[i].name = name].role
    ELSE "none"

\* The run is over: run() has returned, or the session is at GAME_OVER.
Terminal == step \in {"returned", GAME_OVER}

\* This step resolved a night: only the night resolutions advance the day.
NightResolved == game'.day = game.day + 1

\* The entries this step appended to the log.
LogGained == Range(SubSeq(game'.log, Len(game.log) + 1, Len(game'.log)))

ClosingLines(g) == Cardinality({i \in 1..Len(g.log) : g.log[i].k = "game_end"})

\* C2: in any night in which the guard target the knight had accepted equals
\* the attack target T the wolf had accepted, T is alive afterwards, nobody
\* dies, the log gains a guard-success entry and a no-attack entry and no
\* "T was attacked" entry, and the speaking order is unchanged.
C2_GuardNullifiesAttack ==
    [][ (NightResolved /\ lastOp'.guard # None /\ lastOp'.guard = lastOp'.attack)
        => /\ lastOp'.attack \in LivingNames(game')
           /\ LivingNames(game') = LivingNames(game)
           /\ LogGuardSuccess(lastOp'.attack) \in LogGained
           /\ LogNoAttack \in LogGained
           /\ LogAttack(lastOp'.attack) \notin LogGained
           /\ speaking_order' = speaking_order ]_vars

\* C3: in any night resolution in which the seer's divination was accepted
\* and the attack of that night killed that seer, the divination ledger
\* after the resolution equals the ledger before it, in every runner.
C3_KilledSeerCommitsNothing ==
    [][ (NightResolved /\ lastOp'.divine # NoDivine
         /\ lastOp'.attacked = lastOp'.divine[1])
        => game'.divined_history = game.divined_history ]_vars

C3_Witness ==
    /\ lastOp.divine # NoDivine
    /\ lastOp.attacked = lastOp.divine[1]
    /\ lastOp.attacked \in DeadNames(game)

C5_EveryCycleCostsALife == Cardinality(DeadNames(game)) >= game.day - 1

\* C6: execute_divine, execute_guard and execute_attack, given a target name
\* that is unknown, dead, the actor's own, already divined by the actor (for
\* a divination) or a werewolf's (for an attack), return no effect and the
\* snapshot they were given.
C6_InvalidTarget(g, op, actor_name, target_name) ==
    \/ target_name \notin NamesOf(g.players)
    \/ target_name \in DeadNames(g)
    \/ target_name = actor_name
    \/ /\ op = "execute_divine"
       /\ \E i \in 1..Len(g.divined_history) :
             g.divined_history[i] = <<actor_name, target_name>>
    \/ /\ op = "execute_attack"
       /\ RoleOfName(g, target_name) = WEREWOLF

C6_InvalidTargetNoEffect ==
    [][ (runner = "exec"
         /\ C6_InvalidTarget(game, lastOp'.op, lastOp'.actor, lastOp'.target))
        => /\ lastOp'.divine = NoDivine
           /\ lastOp'.guard = None
           /\ lastOp'.attack = None
           /\ game' = game ]_vars

C6_Witness ==
    /\ runner = "exec"
    /\ lastOp.op = "execute_guard"
    /\ RoleOfName(game, lastOp.actor) = KNIGHT
    /\ lastOp.actor \in LivingNames(game)
    /\ lastOp.target = lastOp.actor
    /\ lastOp.guard = None

\* C7: when the name the tally settles on is not a living participant's,
\* the vote handling kills nobody, logs no execution entry, leaves the
\* medium ledger as it was, and does not raise.
C7_TallyWinnerNotLiving ==
    [][ (lastOp'.tally # None /\ lastOp'.tally \notin LivingNames(game))
        => /\ game'.players = game.players
           /\ \A entry \in LogGained : entry.k # "executed"
           /\ game'.medium_results = game.medium_results
           /\ step' # RAISED ]_vars

C7_Witness ==
    /\ runner = "engine"
    /\ lastOp.tally = UnknownName
    /\ step = EXECUTION_RESULT

\* C8: a session starts at ROLE_REVEAL and its step changes only along the
\* edges of the step-wise state machine.
StepEdges ==
    { <<ROLE_REVEAL, DISCUSSION>>,
      <<DISCUSSION, DISCUSSION>>, <<DISCUSSION, VOTE>>,
      <<VOTE, EXECUTION_RESULT>>, <<VOTE, GAME_OVER>>,
      <<EXECUTION_RESULT, NIGHT_ACTION>>, <<EXECUTION_RESULT, NIGHT_RESULT>>,
      <<EXECUTION_RESULT, GAME_OVER>>,
      <<NIGHT_ACTION, NIGHT_RESULT>>, <<NIGHT_ACTION, GAME_OVER>>,
      <<NIGHT_RESULT, DISCUSSION>> }

C8_StepEdges ==
    /\ []((runner = "session" /\ lastOp.op = "none") => step = ROLE_REVEAL)
    /\ [][ runner = "session" => (step' = step \/ <<step, step'>> \in StepEdges) ]_vars

C8_Witness ==
    /\ runner = "session"
    /\ step = DISCUSSION
    /\ game.day = 2
    /\ lastOp.op = "next"

\* C9: a session at GAME_OVER has recorded as winner the faction that
\* check_victory returns for its snapshot, never none, and its log ends with
\* the one closing line, which names that faction; the snapshot run()
\* returns ends likewise; before that the log has no closing line.
C9_ClosingLine ==
    runner \in {"batch", "session"}
    => /\ Terminal => /\ winner # NoTeam
                      /\ winner = check_victory(game)
                      /\ game.log[Len(game.log)] = LogGameEnd(winner)
                      /\ ClosingLines(game) = 1
       /\ ~Terminal => ClosingLines(game) = 0

C9_Witness ==
    /\ runner = "batch"
    /\ step = "returned"
    /\ winner = WEREWOLF_TEAM
    /\ lastOp.attacked # None

\* C10: a request that the session's step does not allow (discuss outside
\* DISCUSSION, vote outside VOTE, night-action outside NIGHT_ACTION, next at
\* GAME_OVER, at NIGHT_ACTION or where a living human must speak or vote) is
\* answered with an error and leaves the step, the snapshot and the speaking
\* order as they were; nothing leaves GAME_OVER.
StepAllows(request) ==
    CASE request = "discuss" -> step = DISCUSSION
      [] request = "vote" -> step = VOTE
      [] request = "night_action" -> step = NIGHT_ACTION
      [] request = "next" -> \/ step \in {ROLE_REVEAL, EXECUTION_RESULT, NIGHT_RESULT}
                             \/ step \in {DISCUSSION, VOTE} /\ ~human_is_alive
      [] OTHER -> FALSE

C10_InvalidRequestRejected ==
    [][ runner = "session"
        => /\ ~StepAllows(lastOp'.op) => lastOp'.status = 400
           /\ lastOp'.status = 400
              => UNCHANGED <<game, step, speaking_order, discussion_round, winner>>
           /\ step = GAME_OVER => (step' = GAME_OVER /\ game' = game) ]_vars

C10_Witness ==
    /\ runner = "session"
    /\ step = GAME_OVER
    /\ lastOp.op = "next"
    /\ lastOp.status = 400

\* The names the living human could choose tonight: a seer any other living
\* participant it has not divined, a wolf any living non-wolf, a knight any
\* other living participant.
HumanChoices(g) ==
    LET role == RoleOfName(g, human_player_name)
    IN IF human_player_name \notin LivingNames(g) THEN {}
       ELSE IF role = SEER
       THEN (LivingNames(g) \ {human_player_name})
            \ Range(get_divined_history(g, human_player_name))
       ELSE IF role = WEREWOLF
       THEN {n \in LivingNames(g) : RoleOfName(g, n) # WEREWOLF}
       ELSE IF role = KNIGHT THEN LivingNames(g) \ {human_player_name}
       ELSE {}

\* A step that begins the night from EXECUTION_RESULT.
NightBegins ==
    /\ runner \in {"session", "engine"}
    /\ step = EXECUTION_RESULT
    /\ lastOp'.status = 200

\* C11: when the night begins after EXECUTION_RESULT the night header is
\* appended; the runner suspends at NIGHT_ACTION (phase NIGHT, nothing else
\* logged) iff the human is alive, is a seer, a wolf or a knight and has at
\* least one candidate; otherwise the night is resolved in the same step and
\* the step becomes NIGHT_RESULT or GAME_OVER.
C11_NightSuspendsForAbility ==
    [][ NightBegins
        => /\ LogNightHeader(game.day) \in LogGained
           /\ HumanChoices(game) # {}
              => /\ step' = NIGHT_ACTION
                 /\ game'.phase = NIGHT
                 /\ game'.log = Append(game.log, LogNightHeader(game.day))
           /\ HumanChoices(game) = {}
              => /\ step' \in {NIGHT_RESULT, GAME_OVER}
                 /\ NightResolved ]_vars

\* A step that resolves the night from NIGHT_ACTION with the human's target.
HumanNightStep ==
    /\ runner \in {"session", "engine"}
    /\ step = NIGHT_ACTION
    /\ lastOp'.status = 200

\* C12: at NIGHT_ACTION, when the human supplies no target or one that is not
\* a legal choice, the human's ability has no effect (a human seer's ledger
\* gains nothing, no guard is recorded for a human knight, nobody dies when
\* the human is the attacking wolf), the night still resolves to NIGHT_RESULT
\* or GAME_OVER, and nothing is raised.
C12_IllegalHumanTargetNoEffect ==
    [][ (HumanNightStep /\ lastOp'.target \notin HumanChoices(game))
        => /\ step' \in {NIGHT_RESULT, GAME_OVER}
           /\ NightResolved
           /\ RoleOfName(game, human_player_name) = SEER
              => get_divined_history(game', human_player_name)
                 = get_divined_history(game, human_player_name)
           /\ RoleOfName(game, human_player_name) = KNIGHT
              => game'.guard_history = game.guard_history
           /\ find_night_actor(game, ATTACK).name = human_player_name
              => LivingNames(game') = LivingNames(game) ]_vars

\* The entries a step appends to the log, in order.
Gained == SubSeq(game'.log, Len(game.log) + 1, Len(game'.log))

\* The positions in Gained of the entries of the given kinds.
GainedAt(kinds) == {i \in 1..Len(Gained) : Gained[i].k \in kinds}

\* The first living holder of a role in roster order (None without one).
FirstLivingHolder(g, role) ==
    LET holders == {i \in 1..Len(g.players) :
                       g.players[i].status = ALIVE /\ g.players[i].role = role}
    IN IF holders = {} THEN None
       ELSE g.players[CHOOSE i \in holders : \A j \in holders : i <= j].name

\* The snapshots a night resolves to when the human gives no target.
NightsWithoutHuman ==
    { E_settle(resolve_night(Sess(Op("resolve_night")), NoHumanTargets, answers),
               NIGHT_RESULT).game : answers \in E_night_answers(game) }

\* C13: in a night resolution the divination, the guard and the attack take
\* effect in that order and at most once each, the divination and the guard
\* being those of the first living seer and knight of the roster; a living
\* wolf that is not the first living wolf of the roster (the human included)
\* has no part in the outcome.
C13_NightOrderFirstHolder ==
    [][ NightResolved
        => /\ Cardinality(GainedAt({"divine"})) <= 1
           /\ Cardinality(GainedAt({"guard"})) <= 1
           /\ Cardinality(GainedAt({"attacked", "guard_success"})) <= 1
           /\ \A i \in GainedAt({"divine"}) :
                 /\ Gained[i].a = FirstLivingHolder(game, SEER)
                 /\ \A j \in GainedAt({"guard", "attacked", "guard_success"}) : i < j
           /\ \A i \in GainedAt({"guard"}) :
                 /\ Gained[i].a = FirstLivingHolder(game, KNIGHT)
                 /\ \A j \in GainedAt({"attacked", "guard_success"}) : i < j
           /\ ( /\ runner = "engine"
                /\ step = NIGHT_ACTION
                /\ RoleOfName(game, human_player_name) = WEREWOLF
                /\ FirstLivingHolder(game, WEREWOLF) # human_player_name )
              => game' \in NightsWithoutHuman ]_vars

\* A night in which the human, a wolf second in the roster, named one
\* participant and the first wolf's attack killed another.
C13_Witness ==
    /\ runner = "engine"
    /\ lastOp.op = "resolve_night"
    /\ RoleOfName(game, human_player_name) = WEREWOLF
    /\ human_player_name \in LivingNames(game)
    /\ FirstLivingHolder(game, WEREWOLF) \notin {None, human_player_name}
    /\ lastOp.target \in LivingNames(game)
    /\ RoleOfName(game, lastOp.target) # WEREWOLF
    /\ lastOp.attacked \notin {None, lastOp.target}
    /\ \E i \in 1..Len(game.log) : game.log[i].k = "divine"
    /\ \E i \in 1..Len(game.log) : game.log[i].k = "guard"

\* The order taken up after X: the names after X, then the names before X;
\* the order itself when X is not in it.
RotatedPast(order, X) ==
    LET at == {i \in 1..Len(order) : order[i] = X}
        first == CHOOSE i \in at : \A j \in at : i <= j
    IN IF at = {} THEN order
       ELSE [k \in 1..(Len(order) - 1) |->
                IF k <= Len(order) - first THEN order[first + k]
                ELSE order[k - (Len(order) - first)]]

\* C14: after a night in which the attack kills X the step-wise runner's
\* speaking order is the previous order taken up after X with X removed (the
\* names after X, then the names before X), so X is no longer in it; after a
\* night that kills nobody the speaking order is unchanged.
C14_RotationDropsTheKilled ==
    [][ (NightResolved /\ runner \in {"session", "engine"})
        => /\ DeadNames(game') = DeadNames(game) => speaking_order' = speaking_order
           /\ \A X \in DeadNames(game') \ DeadNames(game) :
                 /\ speaking_order' = RotatedPast(speaking_order, X)
                 /\ X \notin Range(speaking_order') ]_vars

\* The position of the last day header in the log (0 without one).
LastDayHeader(g) ==
    LET at == {i \in 1..Len(g.log) : g.log[i].k = "day_header"}
    IN IF at = {} THEN 0 ELSE CHOOSE i \in at : \A j \in at : j <= i

\* The number of entries of kind k after position i.
CountAfter(g, i, k) == Cardinality({j \in (i + 1)..Len(g.log) : g.log[j].k = k})

\* The vote of the day opened last has been reached.
VoteReached ==
    \/ runner \in {"session", "engine"} /\ step = VOTE
    \/ CountAfter(game, LastDayHeader(game), "vote") > 0

\* C15: when the vote of a day is reached, one discussion round has been run
\* on day 1 and two on any later day, in every runner and whether the human
\* is alive or dead.
C15_RoundsBeforeVote ==
    (LastDayHeader(game) # 0 /\ VoteReached)
    => CountAfter(game, LastDayHeader(game), "round")
       = (IF game.log[LastDayHeader(game)].n = 1 THEN 1 ELSE 2)

\* The positions of the round headers in the log.
RoundHeaders(g) == {i \in 1..Len(g.log) : g.log[i].k = "round"}

\* The last round header before position r (0 without one).
PreviousRound(g, r) ==
    LET before == {i \in RoundHeaders(g) : i < r}
    IN IF before = {} THEN 0 ELSE CHOOSE i \in before : \A j \in before : j <= i

\* The names of the statements logged right after the round header at r.
StatementsOf(g, r) ==
    LET last == CHOOSE j \in r..Len(g.log) :
                    /\ \A i \in (r + 1)..j : g.log[i].k = "speech"
                    /\ (j = Len(g.log) \/ g.log[j + 1].k # "speech")
    IN [i \in 1..(last - r) |-> g.log[r + i].a]

\* The participants alive when the entry at position r was logged.
LivingAt(g, r) ==
    NamesOf(g.players)
    \ {g.log[i].a : i \in {j \in 1..r : g.log[j].k \in {"executed", "attacked"}}}

\* An order carried over a night: taken up after the participant the attack
\* killed between positions p and r, if any.
CarriedOver(g, order, p, r) ==
    LET attacks == {i \in p..r : g.log[i].k = "attacked"}
    IN IF attacks = {} THEN order
       ELSE RotatedPast(order, g.log[CHOOSE i \in attacks : TRUE].a)

\* The round at r has all its statements: it is not the one suspended for
\* the living human's statement.
RoundComplete(g, r) ==
    \/ \E i \in RoundHeaders(g) : i > r
    \/ ~ /\ runner \in {"session", "engine"}
         /\ step = DISCUSSION
         /\ human_player_name \in LivingNames(g)

\* The round at r is one of the day that is under way.
RoundOfToday(g, r) ==
    /\ runner \in {"session", "engine"}
    /\ step \in {DISCUSSION, VOTE, EXECUTION_RESULT}
    /\ r > LastDayHeader(g)

\* C16: the statements of a round are one per living participant, in the
\* speaking order filtered to the living: the order of the round before,
\* taken up after the participant an attack killed in between; in the
\* step-wise runner it is the runner's speaking order, and while the run is
\* suspended for the human's statement exactly the participants before the
\* human have spoken.
C16_RoundFollowsSpeakingOrder ==
    \A r \in RoundHeaders(game) :
       /\ RoundComplete(game, r)
          => /\ Range(StatementsOf(game, r)) = LivingAt(game, r)
             /\ Len(StatementsOf(game, r)) = Cardinality(LivingAt(game, r))
             /\ PreviousRound(game, r) # 0
                => StatementsOf(game, r)
                   = SelectSeq(CarriedOver(game, StatementsOf(game, PreviousRound(game, r)),
                                           PreviousRound(game, r), r),
                               LAMBDA n : n \in LivingAt(game, r))
       /\ (RoundOfToday(game, r) /\ RoundComplete(game, r))
          => StatementsOf(game, r)
             = SelectSeq(speaking_order, LAMBDA n : n \in LivingAt(game, r))
       /\ (RoundOfToday(game, r) /\ ~RoundComplete(game, r))
          => StatementsOf(game, r)
             = SelectSeq(SubSeq(speaking_order, 1,
                                IndexOf(speaking_order, human_player_name) - 1),
                         LAMBDA n : n \in LivingAt(game, r))

\* The role a check requires of its actor.
RequiredRole(check) ==
    CASE check = "can_divine" -> SEER
      [] check = "can_attack" -> WEREWOLF
      [] check = "can_guard" -> KNIGHT

\* The rules of a check that the two Player values violate, by number.
ViolatedRules(g, check, actor, target) ==
    {n \in 1..6 :
        CASE n = 1 -> actor.role # RequiredRole(check)
          [] n = 2 -> actor.status # ALIVE
          [] n = 3 -> \A i \in 1..Len(g.players) : g.players[i] # target
          [] n = 4 -> target.status # ALIVE
          [] n = 5 -> actor.name = target.name
          [] n = 6 -> \/ /\ check = "can_divine"
                         /\ \E i \in 1..Len(g.divined_history) :
                               g.divined_history[i] = <<actor.name, target.name>>
                      \/ /\ check = "can_attack"
                         /\ target.role = WEREWOLF}

\* The failure a check reports for the rule of the given number.
FailureOfRule(check, n) ==
    CASE n = 1 -> (IF check = "can_divine" THEN "not_a_seer"
                   ELSE IF check = "can_attack" THEN "not_a_werewolf"
                   ELSE "not_a_knight")
      [] n = 2 -> "actor_dead"
      [] n = 3 -> "not_in_game"
      [] n = 4 -> "target_dead"
      [] n = 5 -> "self_target"
      [] n = 6 -> IF check = "can_divine" THEN "already_divined"
                  ELSE "target_is_werewolf"

IsCheck == lastOp'.op \in {"can_divine", "can_attack", "can_guard"}

\* C17: a check of divine, attack or guard reports the failure of the first
\* rule violated in the order (1) required role, (2) actor alive, (3) target
\* in the roster, (4) target alive, (5) actor is not the target, (6) the
\* rule of the ability (not already divined by this seer; not a wolf; none
\* for the guard), and succeeds iff no rule is violated.
C17_FirstViolatedRule ==
    [][ (runner = "rules" /\ IsCheck)
        => LET violated == ViolatedRules(game, lastOp'.op, lastOp'.actor, lastOp'.target)
           IN /\ lastOp'.tally = "ok" <=> violated = {}
              /\ \A n \in violated :
                    (\A m \in violated : n <= m)
                    => lastOp'.tally = FailureOfRule(lastOp'.op, n) ]_vars

\* A dead seer checked against a stranger it has the name of: rules 2, 3
\* and 5 are violated and the seer's death is reported.
C17_Witness ==
    /\ runner = "rules"
    /\ lastOp.op = "can_divine"
    /\ lastOp.actor.role = SEER
    /\ lastOp.actor.status = DEAD
    /\ lastOp.target \notin Range(game.players)
    /\ lastOp.target.name = lastOp.actor.name
    /\ lastOp.tally = "actor_dead"

\* The latest entry of the guard ledger (<<>> when the ledger is empty).
LatestGuard(g) ==
    IF Len(g.guard_history) = 0 THEN <<>> ELSE g.guard_history[Len(g.guard_history)]

\* C18: when (knight, T) is the latest guard-ledger entry, the knight is
\* alive and T is alive, the guard check of the knight for T succeeds and
\* execute_guard for T succeeds and appends a second (knight, T) entry.
C18_ConsecutiveGuardAllowed ==
    [][ ( /\ runner = "exec"
          /\ lastOp'.op = "execute_guard"
          /\ RoleOfName(game, lastOp'.actor) = KNIGHT
          /\ lastOp'.actor \in LivingNames(game)
          /\ lastOp'.target \in LivingNames(game)
          /\ LatestGuard(game) = <<lastOp'.actor, lastOp'.target>> )
        => /\ can_guard(game, find_player(game, lastOp'.actor, TRUE),
                        find_player(game, lastOp'.target, TRUE)) = "ok"
           /\ lastOp'.guard = lastOp'.target
           /\ game'.guard_history
              = Append(game.guard_history, <<lastOp'.actor, lastOp'.target>>) ]_vars

\* The ledger after the same protectee was guarded twice in a row.
C18_Witness ==
    /\ runner = "exec"
    /\ lastOp.op = "execute_guard"
    /\ lastOp.guard = lastOp.target
    /\ Len(game.guard_history) = 2
    /\ game.guard_history[1] = game.guard_history[2]
    /\ game.guard_history[2] = <<lastOp.actor, lastOp.target>>

\* The names the knight's ledger entries protect, latest last.
ProtecteesOf(g, knight_name) ==
    LET entries == SelectSeq(g.guard_history, LAMBDA e : e[1] = knight_name)
    IN [i \in 1..Len(entries) |-> entries[i][2]]

\* The knight's most recent protectee, as a set (empty without one).
LatestProtectee(g, knight_name) ==
    LET names == ProtecteesOf(g, knight_name)
    IN IF Len(names) = 0 THEN {} ELSE {names[Len(names)]}

\* A derivation of the guard candidates of a knight of the roster.
KnightCandidates ==
    /\ runner = "rules"
    /\ lastOp'.op = "get_guard_candidates"
    /\ lastOp'.actor.role = KNIGHT

C20_GuardCandidatesIncludeLatest ==
    [][ KnightCandidates
        => /\ LatestProtectee(game, lastOp'.actor.name) \cap LivingNames(game)
              \subseteq Range(lastOp'.tally)
           /\ Range(lastOp'.tally) = LivingNames(game) \ {lastOp'.actor.name} ]_vars

\* The positions in the log of g of the entries of kind k.
LoggedAt(g, k) == {i \in 1..Len(g.log) : g.log[i].k = k}

\* The accepted divinations of night 1 whose seer the night did not kill, as
\* the log before day 2 shows them.
SurvivedDivinations(g) ==
    {i \in LoggedAt(g, "divine") :
        \A j \in LoggedAt(g, "attacked") : g.log[j].a # g.log[i].a}

\* C21: when the seer's divination of T in night 1 was accepted and the
\* night did not kill the seer, the ledger after the night is exactly
\* [(seer, T)] and the start of day 2 appends exactly one divine-result line,
\* naming the seer and T and reading wolf iff T holds the wolf role.
C21_DayTwoDivineResult ==
    [][ (\E i \in 1..Len(Gained) : Gained[i] = LogDayHeader(2))
        => \A i \in SurvivedDivinations(game) :
              /\ game.divined_history = << <<game.log[i].a, game.log[i].b>> >>
              /\ game'.divined_history = game.divined_history
              /\ Cardinality(GainedAt({"divine_result"})) = 1
              /\ \A j \in GainedAt({"divine_result"}) :
                    Gained[j] = LogDivineResult(game.log[i].a, game.log[i].b,
                                    RoleOfName(game, game.log[i].b) = WEREWOLF) ]_vars

\* Day 2 has begun after the surviving seer divined the madman.
C21_Witness ==
    /\ runner = "engine"
    /\ Len(game.divined_history) = 1
    /\ RoleOfName(game, game.divined_history[1][2]) = MADMAN
    /\ game.divined_history[1][1] \in LivingNames(game)
    /\ \E i \in LoggedAt(game, "divine_result") :
          game.log[i] = LogDivineResult(game.divined_history[1][1],
                                        game.divined_history[1][2], FALSE)

\* The roster of g contains a medium.
HasMedium(g) == \E i \in 1..Len(g.players) : g.players[i].role = MEDIUM

\* The medium-ledger entries of g for the given day.
MediumEntriesOf(g, day) ==
    {i \in 1..Len(g.medium_results) : g.medium_results[i][1] = day}

\* The medium-result lines the opening of day d must append: one iff a
\* medium is alive and the ledger has an entry for day d - 1.
MediumLinesDue(g, d) ==
    IF /\ d >= 2
       /\ FirstLivingHolder(g, MEDIUM) # None
       /\ MediumEntriesOf(g, d - 1) # {}
    THEN 1 ELSE 0

\* C22: in a game with a medium in the roster, a vote that executes E
\* appends exactly the entry (day, E, E holds the wolf role) to the medium
\* ledger and no other step changes the ledger; the opening of day d appends
\* one medium-result line for the execution of day d - 1 iff d >= 2, a
\* medium is alive and the ledger has such an entry, and none otherwise.
C22_MediumLedger ==
    [][ HasMedium(game)
        => /\ \A i \in GainedAt({"executed"}) :
                 game'.medium_results
                 = Append(game.medium_results,
                          <<game.day, Gained[i].a,
                            RoleOfName(game, Gained[i].a) = WEREWOLF>>)
           /\ GainedAt({"executed"}) = {}
              => game'.medium_results = game.medium_results
           /\ \A i \in GainedAt({"day_header"}) :
                 /\ Cardinality(GainedAt({"medium_result"}))
                    = MediumLinesDue(game, Gained[i].n)
                 /\ \A j \in GainedAt({"medium_result"}) :
                       /\ Gained[j].a = FirstLivingHolder(game, MEDIUM)
                       /\ \E m \in MediumEntriesOf(game, Gained[i].n - 1) :
                             /\ Gained[j].b = game.medium_results[m][2]
                             /\ (Gained[j].n = 1) = game.medium_results[m][3]
           /\ GainedAt({"day_header"}) = {}
              => GainedAt({"medium_result"}) = {} ]_vars

\* The names and roles of the roster of g, in order.
RosterIdentity(g) == [i \in 1..Len(g.players) |-> <<g.players[i].name, g.players[i].role>>]

\* A step that resolves a night: the night it found or began is over.
NightEnds ==
    /\ game'.phase = DAY
    /\ \/ game.phase = NIGHT
       \/ GainedAt({"night_header"}) # {}

\* C23: no operation of a runner changes the names, the roles or the order
\* of the roster; the log before an operation is a prefix of the log after
\* it; the day counter never decreases and grows, by exactly 1, at the
\* resolution of a night and at no other step.
C23_RosterLogDayInvariants ==
    [][ /\ RosterIdentity(game') = RosterIdentity(game)
        /\ Len(game'.log) >= Len(game.log)
        /\ SubSeq(game'.log, 1, Len(game.log)) = game.log
        /\ game'.day = (IF NightEnds THEN game.day + 1 ELSE game.day) ]_vars

\* A second day reached after a night whose attack killed.
C23_Witness ==
    /\ runner \in {"batch", "session", "engine"}
    /\ game.day = 2
    /\ lastOp.attacked \in DeadNames(game)
    /\ \E i \in LoggedAt(game, "executed") : game.log[i].a # lastOp.attacked

\* C24: in every snapshot a runner reaches from a freshly created game the
\* divination ledger holds no (seer, target) pair twice and no pair whose
\* target is its seer.
C24_LedgerNoDuplicateNoSelf ==
    /\ \A i, j \in 1..Len(game.divined_history) :
          game.divined_history[i] = game.divined_history[j] => i = j
    /\ \A i \in 1..Len(game.divined_history) :
          game.divined_history[i][1] # game.divined_history[i][2]

\* A ledger in which one seer's divinations of two nights are recorded.
C24_Witness ==
    /\ runner \in {"batch", "session", "engine"}
    /\ Len(game.divined_history) = 2
    /\ game.divined_history[1][1] = game.divined_history[2][1]

VotesFor(votes, t) == Cardinality({v \in DOMAIN votes : votes[v] = t})

\* The targets of a recorded vote map that no other target outpolls.
MostVoted(votes) ==
    {t \in {votes[v] : v \in DOMAIN votes} :
        \A v \in DOMAIN votes : VotesFor(votes, votes[v]) <= VotesFor(votes, t)}

\* C26: tally_votes gives none for the empty vote map and otherwise a target
\* with the maximal count; a unique maximum is returned without a draw from
\* the random source, and a tie is broken by one draw among the tied.
C26_TallyMaximalAndDraws ==
    lastOp.op = "tally_votes" =>
        IF DOMAIN lastOp.actor = {}
        THEN lastOp.tally = None /\ lastOp.target = 0
        ELSE /\ lastOp.tally \in MostVoted(lastOp.actor)
             /\ Cardinality(MostVoted(lastOp.actor)) = 1 => lastOp.target = 0
             /\ Cardinality(MostVoted(lastOp.actor)) > 1 => lastOp.target = 1

\* A tie of two targets among five voters broken in favour of a target that is
\* not the first one voted.
C26_Witness ==
    /\ lastOp.op = "tally_votes"
    /\ Cardinality(DOMAIN lastOp.actor) = 5
    /\ Cardinality(MostVoted(lastOp.actor)) = 2
    /\ lastOp.target = 1
    /\ lastOp.tally = "P3"
    /\ lastOp.actor["P1"] = "P2"

VotesLogged(g, name) ==
    Cardinality({j \in 1..Len(g.log) : g.log[j].k = "vote" /\ g.log[j].b = name})

C28_VisibilityRule ==
    lastOp.op = "is_visible" =>
        (lastOp.tally <=>
            CASE lastOp.target.k = "role" -> lastOp.target.a = lastOp.actor.name
              [] lastOp.target.k \in {"divine", "divine_result"} ->
                    lastOp.actor.role = SEER /\ lastOp.target.a = lastOp.actor.name
              [] lastOp.target.k = "guard" ->
                    lastOp.actor.role = KNIGHT /\ lastOp.target.a = lastOp.actor.name
              [] lastOp.target.k = "medium_result" ->
                    lastOp.actor.role = MEDIUM /\ lastOp.target.a = lastOp.actor.name
              [] lastOp.target.k = "werewolf_allies" -> lastOp.actor.role = WEREWOLF
              [] OTHER -> TRUE)

\* The lines of a role that only its holder is to see.
RoleScoped(e) == e.k \in {"role", "divine", "divine_result", "guard", "medium_result"}

\* C29: the view of a participant V holds no role-reveal line of another
\* participant X and no divine, divine-result, guard or medium-result line
\* whose acting holder is X.
C29_NoLineOfAnotherInView ==
    lastOp.op = "filter_log_entries" =>
        \A i \in 1..Len(game.log) :
            (RoleScoped(game.log[i]) /\ game.log[i].a # lastOp.actor.name)
                => TextOf(game.log[i]) \notin Range(SplitLines(lastOp.tally))

\* C30: filtering for V the lines of a view already filtered for V gives
\* that view again.
C30_FilterIdempotent ==
    lastOp.op = "filter_log_entries" =>
        filter_log_entries(SplitLines(lastOp.tally), lastOp.actor) = lastOp.tally

\* A view of two lines from which a third line was left out.
C30_Witness ==
    /\ lastOp.op = "filter_log_entries"
    /\ Len(game.log) = 3
    /\ Len(SplitLines(lastOp.tally)) = 2
    /\ \E i \in 1..Len(game.log) : RoleScoped(game.log[i])

\* The kinds of line that are not public.
PrivateKinds ==
    {"role", "divine", "divine_result", "guard", "guard_success", "medium_result",
     "werewolf_allies"}

\* C31: format_public_log returns, in their order, exactly the lines that
\* are not role-reveal, divine, divine-result, guard, guard-success,
\* medium-result or werewolf-allies lines, and every line it returns is
\* visible to every participant under _is_visible.
C31_PublicLog ==
    lastOp.op = "format_public_log" =>
        /\ SplitLines(lastOp.tally)
              = TextsOf(SelectSeq(game.log, LAMBDA e : e.k \notin PrivateKinds))
        /\ \A i \in 1..Len(SplitLines(lastOp.tally)) : \A player \in Range(game.players) :
              is_visible(SplitLines(lastOp.tally)[i], player)

\* A public log of one line, the attack, taken from three lines of which
\* one was the guard-success line and one a guard line.
C31_Witness ==
    /\ lastOp.op = "format_public_log"
    /\ Len(game.log) = 3
    /\ Len(SplitLines(lastOp.tally)) = 1
    /\ \E i \in 1..Len(game.log) : game.log[i].k = "guard_success"
    /\ \E i \in 1..Len(game.log) : game.log[i].k = "guard"
    /\ \E i \in 1..Len(game.log) : game.log[i].k = "attacked"

\* The lines of the log the viewer named in lastOp.actor may see.
VisibleTo(player_name) ==
    SelectSeq(game.log, LAMBDA e :
        \E p \in Range(game.players) : p.name = player_name /\ is_visible(TextOf(e), p))

\* The last n elements of a sequence, all of it when it has no more.
LastOf(seq, n) == IF Len(seq) <= n THEN seq ELSE SubSeq(seq, Len(seq) - n + 1, Len(seq))

\* C32: with the cap N on the statements of a viewer's visible log, every
\* visible line that is not a statement is kept; for N < 0 all the visible
\* statements are kept, for N = 0 none, and otherwise exactly the last
\* min(N, number of visible statements); the lines kept stand in their
\* original order.
C32_StatementCap ==
    (lastOp.op = "format_log_for_context" /\ lastOp.status = 200) =>
        \E lines \in {SplitLines(lastOp.tally)} :
        \E visible \in {VisibleTo(lastOp.actor)} :
        \E statements \in {TextsOf(SelectSeq(visible, LAMBDA e : e.k = "speech"))} :
            /\ SelectSeq(lines, LAMBDA t : ~StartsWith(t, "[speech]"))
                  = TextsOf(SelectSeq(visible, LAMBDA e : e.k # "speech"))
            /\ SelectSeq(lines, LAMBDA t : StartsWith(t, "[speech]"))
                  = IF lastOp.target < 0 THEN statements
                    ELSE LastOf(statements, lastOp.target)
            /\ lines = SelectSeq(TextsOf(visible), LAMBDA t : t \in Range(lines))

\* Three statements are visible and the cap of one keeps the last of them
\* only.
C32_Witness ==
    /\ lastOp.op = "format_log_for_context"
    /\ lastOp.status = 200
    /\ lastOp.target = 1
    /\ Len(SelectSeq(VisibleTo(lastOp.actor), LAMBDA e : e.k = "speech")) = 3
    /\ Len(SplitLines(lastOp.tally)) = 1

\* The team of a role and its night ability, as the role table states them.
TeamInTable(role) == IF role \in {WEREWOLF, MADMAN} THEN WEREWOLF_TEAM ELSE VILLAGE

AbilityInTable(role) ==
    IF role = SEER THEN DIVINE
    ELSE IF role = WEREWOLF THEN ATTACK
    ELSE IF role = KNIGHT THEN GUARD
    ELSE NoAction

\* C33: the werewolf and the madman belong to the werewolf team and the
\* villager, seer, knight and medium to the village; the night ability is
\* divine for the seer, attack for the werewolf, guard for the knight and
\* none for the villager, medium and madman.
C33_RoleTable ==
    /\ lastOp.op = "team" => lastOp.tally = TeamInTable(lastOp.actor.role)
    /\ lastOp.op = "night_action_type" => lastOp.tally = AbilityInTable(lastOp.actor.role)

\* How many participants of a roster bear a role.
RoleCount(players, role) == Cardinality({i \in 1..Len(players) : players[i].role = role})

C35_VoteStopsAtExecutionResult ==
    [][(runner = "session" /\ step = VOTE /\ lastOp'.status = 200)
          => step' = EXECUTION_RESULT]_vars

ExecutedLines(g) == Cardinality({i \in 1..Len(g.log) : g.log[i].k = "executed"})

\* C36: when every vote names a living participant other than the voter,
\* every day phase executes exactly one participant, so the number of the
\* living decreases by one each day, and a game of nine participants reaches
\* a winner within seven day phases whatever the nights do.
C36_WinnerWithinSevenDays ==
    /\ [][(runner = "days" /\ step = "run_day")
             => /\ ExecutedLines(game') = ExecutedLines(game) + 1
                /\ Cardinality(LivingNames(game')) = Cardinality(LivingNames(game)) - 1
                /\ lastOp'.tally \in LivingNames(game) \ LivingNames(game')]_vars
    /\ [](runner = "days" => game.day <= 7)
    /\ (runner = "days") ~> (winner # NoTeam)

\* The seventh day phase decides a game in which no night killed anyone.
C36_Witness ==
    /\ runner = "days"
    /\ winner # NoTeam
    /\ game.day = 7
    /\ Cardinality(LivingNames(game)) = 2
    /\ \A i \in 1..Len(game.log) : game.log[i].k # "attacked"

LivingWolves(g) == {n \in LivingNames(g) : RoleOfName(g, n) = WEREWOLF}

\* C37: a night attack never kills a werewolf, at most one participant dies
\* in a night and at most one in a day; so the number of living werewolves
\* never decreases during a night and the village's victory is declared
\* right after a day phase, never after a night.
C37_NightsSpareTheWolves ==
    [][ /\ Cardinality(DeadNames(game')) <= Cardinality(DeadNames(game)) + 1
        /\ NightResolved
              => /\ LivingWolves(game') = LivingWolves(game)
                 /\ lastOp'.attacked # None
                       => /\ RoleOfName(game, lastOp'.attacked) # WEREWOLF
                          /\ DeadNames(game') = DeadNames(game) \cup {lastOp'.attacked}
                 /\ ~(winner = NoTeam /\ winner' = VILLAGE)
        /\ (winner = NoTeam /\ winner' = VILLAGE)
              => /\ game'.day = game.day
                 /\ lastOp'.tally \in DeadNames(game') \ DeadNames(game)
                 /\ RoleOfName(game, lastOp'.tally) = WEREWOLF ]_vars

\* In a run of the step-wise engine a night attack has killed a participant
\* and the village has won on a later day, no werewolf being left.
C37_Witness ==
    /\ runner = "engine"
    /\ winner = VILLAGE
    /\ game.day >= 2
    /\ \E i \in 1..Len(game.log) : game.log[i].k = "attacked"
    /\ LivingWolves(game) = {}

\* The actor of the list is a living holder of the role.
LivingHolder(role) == lastOp.actor.role = role /\ lastOp.actor.status = ALIVE

\* C38: for a living seer the divine candidates are exactly the Player
\* values can_divine accepts, for a living werewolf the attack candidates are
\* exactly those can_attack accepts, and the guard candidates of a living
\* knight are among those can_guard accepts; so the execute_* call accepts
\* the name of any candidate.
C38_CandidatesAreAccepted ==
    /\ (step = "listed" /\ lastOp.op = "get_divine_candidates" /\ LivingHolder(SEER))
          => Range(lastOp.tally)
                = {t \in PlayerValues(game) : can_divine(game, lastOp.actor, t) = "ok"}
    /\ (step = "listed" /\ lastOp.op = "get_attack_candidates" /\ LivingHolder(WEREWOLF))
          => Range(lastOp.tally)
                = {t \in PlayerValues(game) : can_attack(game, lastOp.actor, t) = "ok"}
    /\ (step = "listed" /\ lastOp.op = "get_guard_candidates" /\ LivingHolder(KNIGHT))
          => Range(lastOp.tally)
                \subseteq {t \in PlayerValues(game) : can_guard(game, lastOp.actor, t) = "ok"}
    /\ (step = "executed" /\ lastOp.op = "get_divine_candidates" /\ LivingHolder(SEER))
          => (lastOp.divine # NoDivine /\ lastOp.divine[2] = lastOp.target)
    /\ (step = "executed" /\ lastOp.op = "get_attack_candidates" /\ LivingHolder(WEREWOLF))
          => lastOp.attack = lastOp.target
    /\ (step = "executed" /\ lastOp.op = "get_guard_candidates" /\ LivingHolder(KNIGHT))
          => lastOp.guard = lastOp.target

\* A seer who had divined before was given candidates without the divined
\* participant, and the divination of one of them was accepted.
C38_Witness ==
    /\ step = "executed"
    /\ lastOp.op = "get_divine_candidates"
    /\ LivingHolder(SEER)
    /\ Len(get_divined_history(game, lastOp.actor.name)) = 1
    /\ Len(lastOp.tally) = Cardinality(LivingNames(game)) - 2
    /\ lastOp.divine # NoDivine

\* How often a name stands in an order.
Occurrences(order, name) == Cardinality({i \in 1..Len(order) : order[i] = name})

\* C39: in every state of the step-wise runner the speaking order holds
\* every living participant exactly once, and a name leaves the order only
\* when its bearer is dead; so the order filtered to the living is a
\* permutation of the living and holds the human while the human is alive.
C39_SpeakingOrderHoldsTheLiving ==
    /\ [](runner = "engine" =>
            /\ \A n \in LivingNames(game) : Occurrences(speaking_order, n) = 1
            /\ \E ordered \in {NameSeq(get_alive_speaking_order(game, speaking_order))} :
                  /\ Range(ordered) = LivingNames(game)
                  /\ Len(ordered) = Cardinality(LivingNames(game))
                  /\ human_player_name \in LivingNames(game)
                        => human_player_name \in Range(ordered))
    /\ [][runner = "engine" =>
            \A n \in Range(speaking_order) \ Range(speaking_order') :
                n \in DeadNames(game')]_vars

\* A night attack has killed a participant, whose name has left the order,
\* while an executed participant is still in it.
C39_Witness ==
    /\ runner = "engine"
    /\ \E n \in DeadNames(game) : n \notin Range(speaking_order)
    /\ \E n \in DeadNames(game) : n \in Range(speaking_order)
    /\ Cardinality(LivingNames(game)) >= 2

\* The ledger of the first living seer of g (empty without one).
LivingSeerLedger(g) ==
    IF FirstLivingHolder(g, SEER) = None THEN <<>>
    ELSE get_divined_history(g, FirstLivingHolder(g, SEER))

\* C40: the start of a day d >= 2 on which a seer is alive with a ledger
\* that is not empty appends exactly one divine-result line, naming the
\* seer and the last target of the ledger, also when night d - 1 committed
\* no divination; the start of day 1, of a day without a living seer, or of
\* a day on which the seer's ledger is empty appends none.
C40_DayStartNotifiesLastDivined ==
    [][ (runner \in {"days", "engine"}
            /\ \E i \in 1..Len(Gained) : Gained[i].k = "day_header")
        => IF game.day >= 2 /\ Len(LivingSeerLedger(game)) > 0
           THEN /\ Cardinality(GainedAt({"divine_result"})) = 1
                /\ \A j \in GainedAt({"divine_result"}) :
                      /\ Gained[j].a = FirstLivingHolder(game, SEER)
                      /\ Gained[j].b
                            = LivingSeerLedger(game)[Len(LivingSeerLedger(game))]
           ELSE GainedAt({"divine_result"}) = {} ]_vars

\* Day 3 has begun with a ledger of two targets, and a later day with the
\* same ledger: the second target has been notified twice, the first once.
C40_Witness ==
    /\ runner = "days"
    /\ game.day >= 4
    /\ Len(game.divined_history) = 2
    /\ Cardinality({i \in LoggedAt(game, "divine_result") :
                       game.log[i].b = game.divined_history[2][2]}) >= 2
    /\ Cardinality({i \in LoggedAt(game, "divine_result") :
                       game.log[i].b = game.divined_history[1][2]}) = 1

====
